---- MODULE Spec2Model ----
(***************************************************************************)
(* ember-mcp: the documentation service (lib/documentation-service.js),    *)
(* the deprecation manager (lib/deprecation-manager.js) and the tool-call  *)
(* handler (index.js), modelled as a state machine.                        *)
(*                                                                         *)
(* A JavaScript string is a sequence of one-character strings; every       *)
(* string method used by the code (toLowerCase, indexOf, includes, split,  *)
(* trim, match with the regular expressions of the source) is an operator  *)
(* that computes what the method computes on such a sequence.              *)
(***************************************************************************)
EXTENDS Integers, Sequences, FiniteSets, TLC

(***************************************************************************)
(* Strings                                                                 *)
(***************************************************************************)

\* const v = ...; F(v): the value is computed once and named in F.
Let(v, F(_)) == F(v)

\* JavaScript undefined / null for a value that is otherwise a string.
Undefined == <<"undefined">>

\* The grave accent character (U+0060), which a TLA+ string cannot hold.
Backtick == "BACKTICK"

UpperSet ==
    {"A","B","C","D","E","F","G","H","I","J","K","L","M",
     "N","O","P","Q","R","S","T","U","V","W","X","Y","Z"}

LowerSet ==
    {"a","b","c","d","e","f","g","h","i","j","k","l","m",
     "n","o","p","q","r","s","t","u","v","w","x","y","z"}

Digits == {"0","1","2","3","4","5","6","7","8","9"}

\* The lowercase letter of each uppercase letter.
LowerOf ==
    [A |-> "a", B |-> "b", C |-> "c", D |-> "d", E |-> "e", F |-> "f", G |-> "g",
     H |-> "h", I |-> "i", J |-> "j", K |-> "k", L |-> "l", M |-> "m", N |-> "n",
     O |-> "o", P |-> "p", Q |-> "q", R |-> "r", S |-> "s", T |-> "t", U |-> "u",
     V |-> "v", W |-> "w", X |-> "x", Y |-> "y", Z |-> "z"]

Range(s) == {s[i] : i \in 1..Len(s)}

IsUpper(c) == c \in UpperSet

IsLower(c) == c \in LowerSet

IsLetter(c) == IsUpper(c) \/ IsLower(c)

\* \s of a JavaScript regular expression, over the characters of the model.
IsSpace(c) == c \in {" ", "\n", "\t"}

LowerChar(c) == IF c \in DOMAIN LowerOf THEN LowerOf[c] ELSE c

\* String.prototype.toLowerCase
toLowerCase(s) == [i \in 1..Len(s) |-> LowerChar(s[i])]

Min(a, b) == IF a < b THEN a ELSE b

Max(a, b) == IF a > b THEN a ELSE b

\* The least and the greatest member of a set of integers that is not
\* empty, and of any set of integers with a value for the empty one.
MinOf(S) == CHOOSE i \in S : \A j \in S : i <= j

MaxOf(S) == CHOOSE i \in S : \A j \in S : i >= j

MinOr(S, none) == IF S = {} THEN none ELSE MinOf(S)

MaxOr(S, none) == IF S = {} THEN none ELSE MaxOf(S)

\* String.prototype.substring(from, to), 0-based, end exclusive, clipped.
substring(s, from, to) ==
    Let(Max(0, Min(from, Len(s))), LAMBDA f :
    Let(Max(0, Min(to, Len(s))), LAMBDA t :
        SubSeq(s, Min(f, t) + 1, Max(f, t))))

\* p occurs in s at 0-based offset i.
OccursAt(s, p, i) ==
    /\ i >= 0
    /\ i + Len(p) <= Len(s)
    /\ \A k \in 1..Len(p) : s[i + k] = p[k]

startsWith(s, p) == OccursAt(s, p, 0)

\* String.prototype.indexOf(p, from): first 0-based offset >= from, or -1.
indexOfFrom(s, p, from) ==
    MinOr({i \in from..(Len(s) - Len(p)) : OccursAt(s, p, i)}, -1)

indexOf(s, p) == indexOfFrom(s, p, 0)

\* String.prototype.lastIndexOf(p)
lastIndexOf(s, p) ==
    MaxOr({i \in 0..(Len(s) - Len(p)) : OccursAt(s, p, i)}, -1)

\* String.prototype.includes
includes(s, p) == indexOf(s, p) # -1

\* String.prototype.trim
trim(s) ==
    Let({i \in 1..Len(s) : ~IsSpace(s[i])}, LAMBDA keep :
        IF keep = {} THEN <<>> ELSE SubSeq(s, MinOf(keep), MaxOf(keep)))

\* String.prototype.split(sep) for a one-character separator.
RECURSIVE split(_, _)
split(s, sep) ==
    Let(indexOf(s, <<sep>>), LAMBDA i :
        IF i = -1 THEN <<s>>
        ELSE <<SubSeq(s, 1, i)>> \o split(SubSeq(s, i + 2, Len(s)), sep))

\* Array.prototype.join(sep) for a one-character separator.
RECURSIVE join(_, _)
join(parts, sep) ==
    IF Len(parts) = 0 THEN <<>>
    ELSE IF Len(parts) = 1 THEN parts[1]
    ELSE parts[1] \o <<sep>> \o join(Tail(parts), sep)

\* s.split(/\s+/).filter(term => term.length > 0): the maximal runs of
\* non-whitespace characters of s, in order.
RECURSIVE splitWhitespace(_)
splitWhitespace(s) ==
    IF Len(s) = 0 THEN <<>>
    ELSE IF IsSpace(s[1]) THEN splitWhitespace(Tail(s))
    ELSE Let(MinOr({i \in 1..Len(s) : IsSpace(s[i])}, Len(s) + 1), LAMBDA e :
             <<SubSeq(s, 1, e - 1)>> \o splitWhitespace(SubSeq(s, e, Len(s))))

(***************************************************************************)
(* Literals of the source                                                  *)
(***************************************************************************)

API_DOCS == <<"a","p","i","-","d","o","c","s">>

COMMUNITY_BLOGGERS == <<"c","o","m","m","u","n","i","t","y","-","b","l","o","g","g","e","r",
    "s">>

\* '"data"', the literal inside /\{[\s\S]*"data"[\s\S]*\}/
Q_DATA == <<"\"","d","a","t","a","\"">>

T_CLASS == <<"c","l","a","s","s">>

T_MODULE == <<"m","o","d","u","l","e">>

UNTITLED == <<"U","n","t","i","t","l","e","d">>

DEPRECATION == <<"d","e","p","r","e","c","a","t","i","o","n">>

(***************************************************************************)
(* Corpus Segmenter: DocumentationService.parseDocumentation, the loop     *)
(***************************************************************************)

\* line.match(/^# [a-z-]+$/)
IsSectionHeader(line) ==
    /\ Len(line) >= 3
    /\ line[1] = "#"
    /\ line[2] = " "
    /\ \A k \in 3..Len(line) : IsLower(line[k]) \/ line[k] = "-"

\* line.match(/^-{3,}$/)
IsSeparator(line) ==
    /\ Len(line) >= 3
    /\ \A k \in 1..Len(line) : line[k] = "-"

\* this.sections is an object: its keys keep insertion order, so it is a
\* sequence of [name, items] with distinct names.
sectionNames(secs) == [i \in 1..Len(secs) |-> secs[i].name]

hasSection(secs, name) == \E i \in 1..Len(secs) : secs[i].name = name

\* this.sections[name] || []
sectionItems(secs, name) ==
    IF hasSection(secs, name)
    THEN secs[CHOOSE i \in 1..Len(secs) : secs[i].name = name].items
    ELSE <<>>

\* this.sections[name] = this.sections[name] || []; this.sections[name].push(item)
pushItem(secs, name, item) ==
    IF hasSection(secs, name)
    THEN [i \in 1..Len(secs) |->
            IF secs[i].name = name
            THEN [name |-> name, items |-> Append(secs[i].items, item)]
            ELSE secs[i]]
    ELSE Append(secs, [name |-> name, items |-> <<item>>])

\* let currentSection = null
NoSection == -1

\* A mutant: an item of the first buffered line only.
makeItemFirstLine(currentContent, currentSection) ==
    [content |-> currentContent[1], startLine |-> currentSection]

\* { content: currentContent.join('\n'), startLine: currentSection }
makeItem(currentContent, currentSection) ==
    [content |-> join(currentContent, "\n"), startLine |-> currentSection]

\* The push of lines 85-91 and 119-126: taken when a section is open and
\* has content.
saveSection(secs, currentSection, currentContent, sectionName) ==
    IF currentSection # NoSection /\ Len(currentContent) > 0
    THEN pushItem(secs, sectionName, makeItem(currentContent, currentSection))
    ELSE secs

\* The for loop of parseDocumentation from line i (0-based) on, and the
\* "save last section" step after it.  currentSection = NoSection is null.
RECURSIVE parseLines(_, _, _, _, _, _)
parseLines(lines, i, secs, currentSection, currentContent, sectionName) ==
    IF i >= Len(lines)
    THEN saveSection(secs, currentSection, currentContent, sectionName)
    ELSE IF IsSectionHeader(lines[i + 1])
    THEN parseLines(lines, i + 1,
             saveSection(secs, currentSection, currentContent, sectionName),
             i, <<lines[i + 1]>>,
             trim(substring(lines[i + 1], 2, Len(lines[i + 1]))))
    ELSE IF /\ IsSeparator(lines[i + 1])
            /\ Len(currentContent) > 1
            /\ currentSection # NoSection
    THEN parseLines(lines, i + 1,
             pushItem(secs, sectionName, makeItem(currentContent, currentSection)),
             i + 1, <<>>, sectionName)
    ELSE IF currentSection # NoSection
    THEN parseLines(lines, i + 1, secs, currentSection,
                    Append(currentContent, lines[i + 1]), sectionName)
    ELSE parseLines(lines, i + 1, secs, currentSection, currentContent, sectionName)

\* Lines 77-127: the sections after parsing text on top of the sections
\* the service already holds.
segment(secs, text) ==
    parseLines(split(text, "\n"), 0, secs, NoSection, <<>>, <<>>)

(***************************************************************************)
(* DeprecationManager (lib/deprecation-manager.js)                         *)
(***************************************************************************)

\* A deprecation info object; absent members are Undefined.  status "none"
\* stands for the null the lookups return.
Info(name, status, since, reason, modernAlternative, severity, category, link) ==
    [name |-> name, status |-> status, since |-> since, reason |-> reason,
     modernAlternative |-> modernAlternative, severity |-> severity,
     category |-> category, deprecationGuideLink |-> link]

NullInfo ==
    Info(Undefined, "none", Undefined, Undefined, Undefined, "none",
         Undefined, Undefined)

\* An entry of the knownDeprecations map with status 'deprecated'.
Known(name, reason, modernAlternative, category, severity) ==
    toLowerCase(name) :>
        Info(name, "deprecated", Undefined, reason, modernAlternative, severity,
             category, Undefined)

\* this.knownDeprecations of the constructor: lowercase name -> info.
knownDeprecations ==
    Known(<<"A","r","r","a","y","P","r","o","x","y">>,
          <<"N","a","t","i","v","e"," ","P","r","o","x","y"," ","i","s"," ","n","o","w"," ",
              "a","v","a","i","l","a","b","l","e"," ","i","n"," ","a","l","l"," ","s","u",
              "p","p","o","r","t","e","d"," ","e","n","v","i","r","o","n","m","e","n","t",
              "s">>,
          <<"U","s","e"," ","t","r","a","c","k","e","d"," ","p","r","o","p","e","r","t","i",
              "e","s"," ","a","n","d"," ","n","a","t","i","v","e"," ","a","r","r","a","y",
              "s"," ","f","o","r"," ","r","e","a","c","t","i","v","e"," ","d","a","t","a">>,
          <<"l","e","g","a","c","y","-","p","r","o","x","y">>, "warning")
    @@ Known(<<"O","b","j","e","c","t","P","r","o","x","y">>,
          <<"N","a","t","i","v","e"," ","P","r","o","x","y"," ","i","s"," ","n","o","w"," ",
              "a","v","a","i","l","a","b","l","e"," ","i","n"," ","a","l","l"," ","s","u",
              "p","p","o","r","t","e","d"," ","e","n","v","i","r","o","n","m","e","n","t",
              "s">>,
          <<"U","s","e"," ","t","r","a","c","k","e","d"," ","p","r","o","p","e","r","t","i",
              "e","s"," ","w","i","t","h"," ","p","l","a","i","n"," ","o","b","j","e","c",
              "t","s">>,
          <<"l","e","g","a","c","y","-","p","r","o","x","y">>, "warning")
    @@ Known(<<"P","r","o","m","i","s","e","P","r","o","x","y","M","i","x","i","n">>,
          <<"N","a","t","i","v","e"," ","P","r","o","x","y"," ","i","s"," ","n","o","w"," ",
              "a","v","a","i","l","a","b","l","e"," ","i","n"," ","a","l","l"," ","s","u",
              "p","p","o","r","t","e","d"," ","e","n","v","i","r","o","n","m","e","n","t",
              "s">>,
          <<"U","s","e"," ","e","m","b","e","r","-","a","s","y","n","c","-","d","a","t","a",
              " ","o","r"," ","e","m","b","e","r","-","c","o","n","c","u","r","r","e","n",
              "c","y"," ","w","i","t","h"," ","t","r","a","c","k","e","d"," ","p","r","o",
              "p","e","r","t","i","e","s">>,
          <<"l","e","g","a","c","y","-","p","r","o","x","y">>, "warning")
    @@ Known(<<"E","v","e","n","t","e","d">>,
          <<"L","e","g","a","c","y"," ","e","v","e","n","t"," ","s","y","s","t","e","m"," ",
              "f","r","o","m"," ","p","r","e","-","m","o","d","e","r","n"," ","E","m","b",
              "e","r">>,
          <<"U","s","e"," ","n","a","t","i","v","e"," ","e","v","e","n","t"," ","s","y","s",
              "t","e","m"," ","o","r"," ","e","m","b","e","r","-","c","o","n","c","u","r",
              "r","e","n","c","y"," ","f","o","r"," ","c","o","m","p","l","e","x"," ","f",
              "l","o","w","s">>,
          <<"l","e","g","a","c","y","-","e","v","e","n","t","s">>, "info")

\* \w of a regular expression.
IsWordChar(c) == IsLetter(c) \/ c \in Digits \/ c = "_"

\* \b at 0-based offset i of s.
WordBoundary(s, i) ==
    (i > 0 /\ IsWordChar(s[i])) # (i < Len(s) /\ IsWordChar(s[i + 1]))

\* /\bw\b/i.test(s) for a lowercase literal w.
TestWord(s, w) ==
    Let(toLowerCase(s), LAMBDA lower :
        \E i \in 0..(Len(s) - Len(w)) :
            /\ OccursAt(lower, w, i)
            /\ WordBoundary(s, i)
            /\ WordBoundary(s, i + Len(w)))

\* Offset after the longest run of \s that starts at offset i.
RECURSIVE wsEnd(_, _)
wsEnd(s, i) ==
    IF i >= 0 /\ i < Len(s) /\ IsSpace(s[i + 1]) THEN wsEnd(s, i + 1) ELSE i

\* Offset after the longest run of \d that starts at offset i.
RECURSIVE digitsEnd(_, _)
digitsEnd(s, i) ==
    IF i >= 0 /\ i < Len(s) /\ s[i + 1] \in Digits THEN digitsEnd(s, i + 1) ELSE i

CharAt(s, i) == IF i >= 0 /\ i < Len(s) THEN s[i + 1] ELSE ""

\* (\d+\.\d+(?:\.\d+)?) at offset p: the offset after it, or -1.
versionEnd(s, p) ==
    Let(digitsEnd(s, p), LAMBDA d1 :
    Let(digitsEnd(s, d1 + 1), LAMBDA d2 :
    Let(digitsEnd(s, d2 + 1), LAMBDA d3 :
        IF d1 > p /\ CharAt(s, d1) = "." /\ d2 > d1 + 1
        THEN IF CharAt(s, d2) = "." /\ d3 > d2 + 1 THEN d3 ELSE d2
        ELSE -1)))

\* v?(\d+\.\d+(?:\.\d+)?) at offset q: <<start, end>> of the capture, or
\* <<-1, -1>>.
versionAt(L, q) ==
    Let(IF CharAt(L, q) = "v" THEN q + 1 ELSE q, LAMBDA start :
    Let(versionEnd(L, start), LAMBDA end :
        IF end = -1 THEN <<-1, -1>> ELSE <<start, end>>))

\* \s+(?:since|in)\s+(?:ember\s+)?v?(\d+\.\d+(?:\.\d+)?) at offset p of the
\* lowercased content: <<start, end>> of the capture, or <<-1, -1>>.
\* a is behind the first \s+, b behind since|in, c behind the second \s+,
\* e behind ember\s+; each is -1 when its part does not match.
versionTail(L, p) ==
    Let(wsEnd(L, p), LAMBDA a :
    Let(IF a = p THEN -1
        ELSE IF OccursAt(L, <<"s","i","n","c","e">>, a) THEN a + 5
        ELSE IF OccursAt(L, <<"i","n">>, a) THEN a + 2
        ELSE -1, LAMBDA b :
    Let(IF b = -1 THEN b ELSE wsEnd(L, b), LAMBDA w :
    Let(IF w = b THEN -1 ELSE w, LAMBDA c :
    Let(IF c # -1 /\ OccursAt(L, <<"e","m","b","e","r">>, c) THEN wsEnd(L, c + 5) ELSE -1,
        LAMBDA e :
    Let(IF e > c + 5 THEN versionAt(L, e) ELSE <<-1, -1>>, LAMBDA viaEmber :
        IF viaEmber[1] # -1 THEN viaEmber
        ELSE IF c # -1 THEN versionAt(L, c)
        ELSE <<-1, -1>>))))))

\* content.match(/deprecated\s+(?:since|in)\s+(?:ember\s+)?v?(\d+\.\d+(?:\.\d+)?)/i)
\* -> versionMatch ? versionMatch[1] : null
extractSince(content) ==
    Let(toLowerCase(content), LAMBDA L :
    Let({i \in 0..Len(L) : OccursAt(L, <<"d","e","p","r","e","c","a","t","e","d">>, i)
                           /\ versionTail(L, i + 10)[1] # -1}, LAMBDA hits :
        IF hits = {} THEN Undefined
        ELSE Let(versionTail(L, MinOf(hits) + 10), LAMBDA cap :
                 SubSeq(content, cap[1] + 1, cap[2]))))

\* (?:because|since|as|reason:?) at offset j: the offset after it, or -1.
reasonWordEnd(L, j) ==
    IF OccursAt(L, <<"b","e","c","a","u","s","e">>, j) THEN j + 7
    ELSE IF OccursAt(L, <<"s","i","n","c","e">>, j) THEN j + 5
    ELSE IF OccursAt(L, <<"a","s">>, j) THEN j + 2
    ELSE IF OccursAt(L, <<"r","e","a","s","o","n">>, j)
    THEN IF CharAt(L, j + 6) = ":" /\ wsEnd(L, j + 7) > j + 7 THEN j + 7 ELSE j + 6
    ELSE -1

\* \s+([^.]+) at offset k: the offset where the capture starts, or -1.  The
\* greedy \s+ gives one character back when nothing else is left to capture.
reasonCaptureStart(L, k) ==
    Let(wsEnd(L, k), LAMBDA w :
        IF w = k THEN -1
        ELSE IF w < Len(L) /\ L[w + 1] # "." THEN w
        ELSE IF w - k >= 2 THEN w - 1
        ELSE -1)

\* (?:because|since|as|reason:?)\s+([^.]+) at offset j: the offset where
\* the capture starts, or -1.
reasonStart(L, j) ==
    Let(reasonWordEnd(L, j), LAMBDA k :
        IF k = -1 THEN -1 ELSE reasonCaptureStart(L, k))

\* deprecated[^.]*?(?:because|since|as|reason:?)\s+([^.]+) matches with
\* "deprecated" at offset i and the reason word at offset j.
reasonAt(L, i, j) ==
    /\ OccursAt(L, <<"d","e","p","r","e","c","a","t","e","d">>, i)
    /\ \A k \in (i + 11)..j : L[k] # "."
    /\ reasonStart(L, j) # -1

\* content.match(/deprecated[^.]*?(?:because|since|as|reason:?)\s+([^.]+)/i)
\* -> reasonMatch ? reasonMatch[1].trim() : null
extractReason(content) ==
    Let(toLowerCase(content), LAMBDA L :
    Let({i \in 0..Len(L) : \E j \in (i + 10)..Len(L) : reasonAt(L, i, j)},
        LAMBDA starts :
        IF starts = {} THEN Undefined
        ELSE Let(MinOf(starts), LAMBDA i :
             Let(MinOf({j \in (i + 10)..Len(L) : reasonAt(L, i, j)}), LAMBDA j :
             Let(reasonStart(L, j), LAMBDA c :
             Let(MinOr({d \in c..(Len(L) - 1) : L[d + 1] = "."}, Len(L)),
                 LAMBDA e : trim(SubSeq(content, c + 1, e))))))))

IsQuote(c) == c \in {Backtick, "'", "\""}

\* [^BACKTICK'".,\n]
IsAltChar(c) == c # "" /\ ~IsQuote(c) /\ c \notin {".", ",", "\n"}

RECURSIVE altRunEnd(_, _)
altRunEnd(s, i) ==
    IF i < Len(s) /\ IsAltChar(CharAt(s, i)) THEN altRunEnd(s, i + 1) ELSE i

\* ([BACKTICK'"]?[^BACKTICK'".,\n]+[BACKTICK'"]?) at offset c: the offset
\* after it, or -1.
altGroupEnd(s, c) ==
    Let(IF IsQuote(CharAt(s, c)) THEN c + 1 ELSE c, LAMBDA q :
    Let(altRunEnd(s, q), LAMBDA e :
        IF e = q THEN -1
        ELSE IF IsQuote(CharAt(s, e)) THEN e + 1 ELSE e))

\* \s+([BACKTICK'"]?[^BACKTICK'".,\n]+[BACKTICK'"]?) at offset h: <<start, end>>
\* of the capture with the greedy \s+ backtracking, or <<-1, -1>>.
altCapture(s, h) ==
    Let({c \in (h + 1)..wsEnd(s, h) : altGroupEnd(s, c) # -1}, LAMBDA cs :
        IF cs = {} THEN <<-1, -1>>
        ELSE Let(MaxOf(cs), LAMBDA c : <<c, altGroupEnd(s, c)>>))

\* A literal followed by \s+ and another literal at offset j: offset after.
twoWordsEnd(L, j, w1, w2) ==
    Let(wsEnd(L, j + Len(w1)), LAMBDA w :
        IF OccursAt(L, w1, j) /\ w > j + Len(w1) /\ OccursAt(L, w2, w)
        THEN w + Len(w2)
        ELSE -1)

\* instead,?\s+use at offset j: the set of the offset after it.
insteadUseEnd(L, j) ==
    Let(IF CharAt(L, j + 7) = "," THEN j + 8 ELSE j + 7, LAMBDA a :
    Let(wsEnd(L, a), LAMBDA w :
        IF OccursAt(L, <<"i","n","s","t","e","a","d">>, j) /\ w > a /\ OccursAt(L, <<"u",
            "s","e">>, w)
        THEN {w + 3} ELSE {}))

\* modern\s+alternative:? at offset j: the set of the offset after it, with
\* the colon when a capture follows it.
modernAlternativeEnd(L, j) ==
    Let(twoWordsEnd(L, j, <<"m","o","d","e","r","n">>, <<"a","l","t","e","r","n","a","t",
        "i","v","e">>), LAMBDA m :
        IF m = -1 THEN {}
        ELSE IF CharAt(L, m) = ":" /\ altCapture(L, m + 1)[1] # -1
        THEN {m + 1} ELSE {m})

\* The heads of the three alternativePatterns at offset j: the offsets after
\* the head, one per way the head can match.
altHeadEnds(L, j, pattern) ==
    IF pattern = 1
    THEN \* (?:use|try|prefer|instead,?\s+use)
         (IF OccursAt(L, <<"u","s","e">>, j) \/ OccursAt(L, <<"t","r","y">>, j)
          THEN {j + 3} ELSE {})
         \cup (IF OccursAt(L, <<"p","r","e","f","e","r">>, j) THEN {j + 6} ELSE {})
         \cup insteadUseEnd(L, j)
    ELSE IF pattern = 2
    THEN \* (?:replaced\s+by|superseded\s+by)
         {twoWordsEnd(L, j, <<"r","e","p","l","a","c","e","d">>, <<"b","y">>),
          twoWordsEnd(L, j, <<"s","u","p","e","r","s","e","d","e","d">>, <<"b","y">>)} \ {-1}
    ELSE \* (?:modern\s+alternative:?)
         modernAlternativeEnd(L, j)

\* The heads of a pattern at offset j that a capture follows.
altHeads(content, L, j, pattern) ==
    {h \in altHeadEnds(L, j, pattern) : altCapture(content, h)[1] # -1}

\* content.match(pattern) for one of the alternativePatterns, then
\* match[1].replace(/[BACKTICK'"]/g, '').trim(); Undefined when there is no
\* match.
matchAlternative(content, pattern) ==
    Let(toLowerCase(content), LAMBDA L :
    Let({j \in 0..Len(L) : altHeads(content, L, j, pattern) # {}}, LAMBDA js :
        IF js = {} THEN Undefined
        ELSE Let(altCapture(content,
                            CHOOSE h \in altHeads(content, L, MinOf(js), pattern) : TRUE),
                 LAMBDA cap :
                 trim(SelectSeq(SubSeq(content, cap[1] + 1, cap[2]),
                                LAMBDA ch : ~IsQuote(ch))))))

\* The for loop over alternativePatterns from pattern on: the first pattern
\* that matches.
RECURSIVE firstAlternative(_, _)
firstAlternative(content, pattern) ==
    Let(matchAlternative(content, pattern), LAMBDA modernAlternative :
        IF modernAlternative # Undefined \/ pattern = 3 THEN modernAlternative
        ELSE firstAlternative(content, pattern + 1))

extractAlternative(content) == firstAlternative(content, 1)

\* deprecationKeywords.some(pattern => pattern.test(content))
hasDeprecationKeyword(content) ==
    \E w \in {<<"d","e","p","r","e","c","a","t","e","d">>, <<"l","e","g","a","c","y">>,
        <<"n","o"," ","l","o","n","g","e","r"," ","r","e","c","o","m","m","e","n","d","e",
        "d">>,
              <<"n","o","t"," ","p","r","e","f","e","r","r","e","d">>, <<"s","h","o","u",
                  "l","d"," ","n","o","t"," ","b","e"," ","u","s","e","d">>, <<"a","v","o",
                  "i","d"," ","u","s","i","n","g">>} :
        TestWord(content, w)

\* DeprecationManager.analyzeContent; NullInfo is its null.
analyzeContent(name, content) ==
    IF content = Undefined \/ content = <<>> THEN NullInfo
    ELSE IF ~hasDeprecationKeyword(content) THEN NullInfo
    ELSE Info(name, "deprecated", extractSince(content), extractReason(content),
              extractAlternative(content), "warning", Undefined, Undefined)

\* DeprecationManager.isDeprecated
isDeprecated(deps, name) ==
    /\ name # Undefined
    /\ name # <<>>
    /\ Let(toLowerCase(name), LAMBDA lowerName :
           lowerName \in DOMAIN deps \/ lowerName \in DOMAIN knownDeprecations)

\* map.get(key) || otherwise
getOr(map, key, otherwise) == IF key \in DOMAIN map THEN map[key] ELSE otherwise

\* getDeprecationInfo as it would be with the two maps of line 139 swapped.
getDeprecationInfoKnownFirst(deps, name) ==
    IF name = Undefined \/ name = <<>> THEN NullInfo
    ELSE getOr(knownDeprecations, toLowerCase(name),
               getOr(deps, toLowerCase(name), NullInfo))

\* DeprecationManager.getDeprecationInfo
getDeprecationInfo(deps, name) ==
    IF name = Undefined \/ name = <<>> THEN NullInfo
    ELSE Let(toLowerCase(name), LAMBDA lowerName :
             getOr(deps, lowerName, getOr(knownDeprecations, lowerName, NullInfo)))

\* DeprecationManager.registerDeprecation (Map.set)
registerDeprecation(deps, name, info) ==
    IF name = Undefined \/ name = <<>> \/ info = NullInfo THEN deps
    ELSE (toLowerCase(name) :> info) @@ deps

(***************************************************************************)
(* JSON.parse                                                              *)
(*                                                                         *)
(* The records embedded in api-docs items are JSON:API documents           *)
(*   {"data":{"type":T,"attributes":{"name":N,"shortname":S,"module":M,    *)
(*            "description":D}}}                                           *)
(* A document is a record of its members (Undefined when absent);          *)
(* JSONstringify writes it without white space, and JSONparse accepts      *)
(* exactly the texts that are the serialisation of a document of           *)
(* JsonDocuments, the documents the corpora of the model embed.  Every     *)
(* other brace-bounded text of those corpora is not JSON, and JSON.parse   *)
(* throws a SyntaxError on it.                                             *)
(***************************************************************************)

\* hasAttributes = FALSE: {"data":{"type":T}} - data without attributes.
Document(type, hasAttributes, name, shortname, module, description) ==
    [type |-> type, hasAttributes |-> hasAttributes, name |-> name,
     shortname |-> shortname, module |-> module, description |-> description]

SyntaxError ==
    Document(<<"SyntaxError">>, FALSE, Undefined, Undefined, Undefined, Undefined)

\* "key":"value"
JMember(key, value) ==
    <<"\"">> \o key \o <<"\"", ":", "\"">> \o value \o <<"\"">>

JMembers(pairs) ==
    join([i \in 1..Len(pairs) |-> JMember(pairs[i][1], pairs[i][2])], ",")

Defined(pairs) == SelectSeq(pairs, LAMBDA p : p[2] # Undefined)

\* The members of "data": type, then attributes.
JData(doc, type, attributes) ==
    IF ~doc.hasAttributes THEN type
    ELSE IF doc.type = Undefined THEN attributes
    ELSE type \o <<",">> \o attributes

JSONstringify(doc) ==
    <<"{">> \o Q_DATA \o <<":", "{">>
    \o JData(doc,
             JMembers(Defined(<< <<<<"t","y","p","e">>, doc.type>> >>)),
             <<"\"">> \o <<"a","t","t","r","i","b","u","t","e","s">> \o <<"\"", ":", "{">>
             \o JMembers(Defined(<< <<<<"n","a","m","e">>, doc.name>>,
                                    <<<<"s","h","o","r","t","n","a","m","e">>, doc.shortname>>,
                                    <<<<"m","o","d","u","l","e">>, doc.module>>,
                                    <<<<"d","e","s","c","r","i","p","t","i","o","n">>,
                                        doc.description>> >>))
             \o <<"}">>)
    \o <<"}", "}">>

\* The documents the corpora embed in their api-docs items.
DOC_COMP == Document(T_CLASS, TRUE, <<"C","o","m","p">>, Undefined, <<"@","g","/","c">>,
    <<"b","a","s","e">>)

DOC_ECOMP == Document(T_CLASS, TRUE, <<"E",".","C","o","m","p">>, Undefined, <<"@","e","/",
    "c">>, <<"l","e","g","a","c","y">>)

DOC_SVC == Document(T_MODULE, TRUE, Undefined, <<"S","v","c">>, <<"@","g","/","s">>, Undefined)

DOC_BARE == Document(T_CLASS, FALSE, Undefined, Undefined, Undefined, Undefined)

\* Attributes without a name or a shortname.
DOC_NONAME == Document(T_CLASS, TRUE, Undefined, Undefined, <<"@","n","/","n">>, Undefined)

JsonDocuments == {DOC_COMP, DOC_ECOMP, DOC_SVC, DOC_BARE, DOC_NONAME}

\* JSON.parse(text); SyntaxError stands for the exception it throws.
JSONparse(text) ==
    Let({doc \in JsonDocuments : JSONstringify(doc) = text}, LAMBDA docs :
        IF docs = {} THEN SyntaxError ELSE CHOOSE doc \in docs : TRUE)

\* content.match(/\{[\s\S]*"data"[\s\S]*\}/): the matched text, from the
\* first "{" to the last "}", when a "data" literal lies between them;
\* Undefined when nothing matches.
matchDataObject(content) ==
    Let(indexOf(content, <<"{">>), LAMBDA f :
    Let(IF f = -1 THEN -1 ELSE indexOfFrom(content, Q_DATA, f + 1), LAMBDA d :
    Let(lastIndexOf(content, <<"}">>), LAMBDA c :
        IF f # -1 /\ d # -1 /\ c >= d + Len(Q_DATA)
        THEN substring(content, f, c + 1)
        ELSE Undefined)))

\* The document of matchDataObject(content), SyntaxError when there is no
\* match or JSON.parse throws: both leave the try block without a value.
parseDataObject(content) ==
    Let(matchDataObject(content), LAMBDA jsonMatch :
        IF jsonMatch = Undefined THEN SyntaxError ELSE JSONparse(jsonMatch))

(***************************************************************************)
(* url-builder.js                                                          *)
(***************************************************************************)

\* A generated link: the base of config.js and what is appended to it.
Link(base, kind, name) == [base |-> base, kind |-> kind, name |-> name]

NoLink == Link("null", "", Undefined)

\* title.match(/^([A-Z][a-zA-Z0-9]*)/)?.[1]
RECURSIVE alnumEnd(_, _)
alnumEnd(s, i) ==
    IF i < Len(s) /\ (IsLetter(s[i + 1]) \/ s[i + 1] \in Digits)
    THEN alnumEnd(s, i + 1) ELSE i

leadingClassName(title) ==
    IF Len(title) > 0 /\ IsUpper(title[1])
    THEN SubSeq(title, 1, alnumEnd(title, 1))
    ELSE Undefined

\* generateUrl(sectionName, title)
generateUrl(sectionName, title) ==
    IF sectionName = API_DOCS
    THEN Let(leadingClassName(title), LAMBDA className :
             IF className # Undefined
             THEN Link("API_DOCS_BASE", "classes", className)
             ELSE Link("API_DOCS_BASE", "", Undefined))
    ELSE Link("GUIDES_BASE", "", Undefined)

\* generateApiUrl(name, type)
generateApiUrl(name, type) ==
    IF type = T_CLASS THEN Link("API_DOCS_BASE", "classes", name)
    ELSE IF type = T_MODULE THEN Link("API_DOCS_BASE", "modules", name)
    ELSE Link("API_DOCS_BASE", "", Undefined)

\* The link generateApiLink builds for a parsed document.
apiLinkOf(parsed) ==
    IF /\ parsed # SyntaxError
       /\ parsed.hasAttributes
       /\ parsed.name # Undefined /\ parsed.name # <<>>
       /\ parsed.type # Undefined /\ parsed.type # <<>>
    THEN IF parsed.type = T_CLASS
         THEN Link("API_DOCS_BASE", "classes", parsed.name)
         ELSE IF parsed.type = T_MODULE
         THEN Link("API_DOCS_BASE", "modules", parsed.name)
         ELSE NoLink
    ELSE NoLink

\* generateApiLink(content); NoLink is null.
generateApiLink(content) == apiLinkOf(parseDataObject(content))

(***************************************************************************)
(* DocumentationService.extractTitle                                       *)
(***************************************************************************)

\* "title:"
W_TITLE == <<"t","i","t","l","e",":">>

\* "http://"
W_HTTP == <<"h","t","t","p",":","/","/">>

\* "https://"
W_HTTPS == <<"h","t","t","p","s",":","/","/">>

\* The prefixes the genericPatterns of extractTitle test for, lowercase.
GenericPrefixes ==
    {<<"f","o","r"," ","a","l","l">>, <<"f","o","r"," ","a","n","y">>, <<"f","o","r"," ",
        "m","o","s","t">>, <<"f","o","r"," ","s","o","m","e">>,
     <<"i","n"," ","t","h","i","s">>, <<"i","n"," ","t","h","e","s","e">>, <<"i","n"," ",
         "a","l","l">>, <<"i","n"," ","a","n","y">>,
     <<"w","i","t","h"," ","t","h","i","s">>, <<"w","i","t","h"," ","t","h","e","s","e">>,
         <<"w","i","t","h"," ","a","l","l">>, <<"w","i","t","h"," ","a","n","y">>,
     <<"u","s","i","n","g"," ","t","h","i","s">>, <<"u","s","i","n","g"," ","t","h","e","s",
         "e">>, <<"u","s","i","n","g"," ","a","l","l">>, <<"u","s","i","n","g"," ","a","n",
         "y">>,
     <<"n","o","t","e",":">>, <<"w","a","r","n","i","n","g",":">>, <<"t","i","p",":">>,
         <<"i","m","p","o","r","t","a","n","t",":">>,
     <<"h","e","r","e"," ","i","s">>, <<"h","e","r","e"," ","a","r","e">>, <<"t","h","e",
         "r","e"," ","i","s">>, <<"t","h","e","r","e"," ","a","r","e">>,
     <<"t","h","i","s"," ","i","s">>, <<"t","h","i","s"," ","a","r","e">>, <<"t","h","a",
         "t"," ","i","s">>, <<"t","h","a","t"," ","a","r","e">>,
     W_HTTP, W_HTTPS}

\* The 0-based offsets at which a line of s starts.
lineStarts(s) == {0} \cup {i \in 1..Len(s) : s[i] = "\n"}

\* Offset of the first "\n" in [a, b), or -1.
firstNewline(s, a, b) == MinOr({n \in a..(b - 1) : CharAt(s, n) = "\n"}, -1)

\* ["']
IsTitleQuote(c) == c \in {"\"", "'"}

\* Offset after the longest run of [^"'\n] that starts at offset i.
RECURSIVE titleRunEnd(_, _)
titleRunEnd(s, i) ==
    IF i < Len(s) /\ ~IsTitleQuote(s[i + 1]) /\ s[i + 1] # "\n"
    THEN titleRunEnd(s, i + 1) ELSE i

\* \s*\n(?:.*\n)*?--- at offset u: a newline ends the white space after u
\* and some later line starts with "---".
closesFrontmatter(s, u) ==
    Let(firstNewline(s, u, wsEnd(s, u)), LAMBDA n :
        /\ n # -1
        /\ \E l \in lineStarts(s) : l >= n + 1 /\ OccursAt(s, <<"-", "-", "-">>, l))

\* ["']? at offset a: the offset after it.
skipTitleQuote(s, a) == IF IsTitleQuote(CharAt(s, a)) THEN a + 1 ELSE a

\* \s*["']?([^"'\n]+)["']?\s*\n(?:.*\n)*?--- at offset t, the white space
\* ending at offset a and the capture at offset r.
frontmatterTail(s, t, a, r) ==
    /\ a >= t /\ a <= wsEnd(s, t)
    /\ r > skipTitleQuote(s, a) /\ r <= titleRunEnd(s, skipTitleQuote(s, a))
    /\ \/ IsTitleQuote(CharAt(s, r)) /\ closesFrontmatter(s, r + 1)
       \/ closesFrontmatter(s, r)

\* The <<a, r>> for which the tail of the frontmatter pattern matches behind
\* a "title:" that ends at offset t.
frontmatterTails(s, t) ==
    {p \in (t..Len(s)) \X (t..Len(s)) : frontmatterTail(s, t, p[1], p[2])}

\* content.match(/^---\s*\n(?:.*\n)*?title:\s*["']?([^"'\n]+)["']?\s*\n(?:.*\n)*?---/i)
\* -> frontmatterMatch[1].trim(); Undefined when there is no match.  The
\* lazy (?:.*\n)*? takes the first line that starts the rest of the match,
\* the greedy \s* and capture the longest white space, then the longest
\* capture.
frontmatterTitle(content) ==
    Let(toLowerCase(content), LAMBDA L :
    Let(firstNewline(content, 3, wsEnd(content, 3)), LAMBDA n0 :
        IF ~startsWith(content, <<"-", "-", "-">>) \/ n0 = -1 THEN Undefined
        ELSE
    Let({T \in lineStarts(content) :
            /\ T >= n0 + 1
            /\ OccursAt(L, W_TITLE, T)
            /\ frontmatterTails(content, T + 6) # {}}, LAMBDA Ts :
        IF Ts = {} THEN Undefined
        ELSE
    Let(frontmatterTails(content, MinOf(Ts) + 6), LAMBDA tails :
    Let(MaxOf({p[1] : p \in tails}), LAMBDA a :
    Let(MaxOf({p[2] : p \in {x \in tails : x[1] = a}}), LAMBDA r :
        trim(substring(content, skipTitleQuote(content, a), r))))))))

\* genericPatterns.some(pattern => pattern.test(t))
isGeneric(t) ==
    \/ \E p \in GenericPrefixes : startsWith(toLowerCase(t), p)
    \/ Len(t) >= 1 /\ \A k \in 1..Len(t) : t[k] \in Digits \/ t[k] = "."
    \/ Len(t) >= 2 /\ t[1] \in {"-", "*", "+"} /\ IsSpace(t[2])

RECURSIVE hashEnd(_, _)
hashEnd(s, i) == IF i < Len(s) /\ s[i + 1] = "#" THEN hashEnd(s, i + 1) ELSE i

\* line.match(/^#+\s+(.+)$/) -> headerMatch[1].trim(); Undefined: no match.
headerTitle(line) ==
    Let(hashEnd(line, 0), LAMBDA h :
        IF h >= 1 /\ Len(line) >= h + 2 /\ IsSpace(line[h + 1])
        THEN trim(SubSeq(line, h + 2, Len(line)))
        ELSE Undefined)

\* The header loop of extractTitle returns at this line.
isTitleHeader(line) ==
    Let(headerTitle(line), LAMBDA title :
        title # Undefined /\ ~isGeneric(title) /\ Len(title) > 3)

\* trimmed.match(/^([^.!?]+[.!?])/) -> sentenceMatch[1]; Undefined: no match.
firstSentence(trimmed) ==
    Let({i \in 1..Len(trimmed) : trimmed[i] \in {".", "!", "?"}}, LAMBDA ends :
        IF ends = {} \/ 1 \in ends THEN Undefined
        ELSE SubSeq(trimmed, 1, MinOf(ends)))

\* The fallback loop of extractTitle: a line it does not skip.
isMeaningfulLine(line) ==
    Let(trim(line), LAMBDA trimmed :
        /\ Len(trimmed) > 0
        /\ ~(\A k \in 1..Len(trimmed) : trimmed[k] \in {"-", "="})
        /\ \A p \in {<<"{">>, <<"[">>, <<Backtick, Backtick, Backtick>>,
                     W_HTTP, W_HTTPS} : ~startsWith(trimmed, p)
        /\ ~isGeneric(trimmed)
        /\ Len(trimmed) > 10)

\* What the fallback loop returns at a line it does not skip.
sentenceTitle(line) ==
    Let(trim(line), LAMBDA trimmed :
    Let(firstSentence(trimmed), LAMBDA sentence :
        IF sentence # Undefined
        THEN substring(trim(sentence), 0, 100)
        ELSE substring(trimmed, 0, 100)))

\* parsed.data?.attributes?.name of the JSON embedded in content, Undefined
\* when the try block is left without it.
jsonTitle(content) ==
    Let(parseDataObject(content), LAMBDA parsed :
        IF /\ parsed # SyntaxError /\ parsed.hasAttributes
           /\ parsed.name # Undefined /\ parsed.name # <<>>
        THEN parsed.name
        ELSE Undefined)

\* DocumentationService.extractTitle
extractTitle(content) ==
    Let(split(content, "\n"), LAMBDA lines :
    Let(frontmatterTitle(content), LAMBDA frontmatter :
        IF frontmatter # Undefined THEN frontmatter
        ELSE
    Let({i \in 1..Len(lines) : isTitleHeader(lines[i])}, LAMBDA headers :
        IF headers # {} THEN headerTitle(lines[MinOf(headers)])
        ELSE
    Let(jsonTitle(content), LAMBDA name :
        IF name # Undefined THEN name
        ELSE
    Let({i \in 1..Len(lines) : isMeaningfulLine(lines[i])}, LAMBDA meaningful :
        IF meaningful # {} THEN sentenceTitle(lines[MinOf(meaningful)])
        ELSE UNTITLED)))))

(***************************************************************************)
(* Entity Indexer: DocumentationService.indexApiDocs                       *)
(***************************************************************************)

\* attrs.name || attrs.shortname
entryName(parsed) ==
    IF parsed.name # Undefined /\ parsed.name # <<>>
    THEN parsed.name ELSE parsed.shortname

\* The apiEntry object built at lines 160-171 from a parsed document.  The
\* documents of the model carry no file, line, extends, methods or
\* properties, so those members are undefined or empty in every entry.
apiEntry(parsed) ==
    [name |-> entryName(parsed),
     type |-> parsed.type,
     module |-> parsed.module,
     description |-> parsed.description]

\* What lines 143-154 parse: the text from the first "{" to the last "}" of
\* the trimmed content.  SyntaxError when the callback returns before
\* parsing or JSON.parse throws: both leave the callback without an entry.
parseJsonPortion(docContent) ==
    Let(trim(docContent), LAMBDA content :
    Let(indexOf(content, <<"{">>), LAMBDA jsonStart :
    Let(lastIndexOf(content, <<"}">>), LAMBDA jsonEnd :
        IF jsonStart = -1 THEN SyntaxError
        ELSE IF jsonEnd = -1 \/ jsonEnd <= jsonStart THEN SyntaxError
        ELSE JSONparse(substring(content, jsonStart, jsonEnd + 1)))))

\* hasEntry as it would be without the tests of lines 156 and 159.
hasEntryUnchecked(parsed) == parsed # SyntaxError

\* The callback of indexApiDocs reaches line 160 for a parsed document.
hasEntry(parsed) ==
    /\ parsed # SyntaxError
    /\ parsed.hasAttributes
    /\ entryName(parsed) # Undefined
    /\ entryName(parsed) # <<>>

\* parts[parts.length - 1] of name.split('.')
lastSegment(name) ==
    Let(split(name, "."), LAMBDA parts : parts[Len(parts)])

\* setKey as it would be if a key once set were kept (Map.has before Map.set).
setKeyIfAbsent(idx, condition, key, e) ==
    IF condition /\ toLowerCase(key) \notin DOMAIN idx
    THEN (toLowerCase(key) :> e) @@ idx ELSE idx

\* Map.set(key.toLowerCase(), e) when the condition of the code holds.
setKey(idx, condition, key, e) ==
    IF condition THEN (toLowerCase(key) :> e) @@ idx ELSE idx

\* setEntryKeys as it would be without the Map.set calls of lines 182-190.
setEntryKeysNameOnly(idx, e) == (toLowerCase(e.name) :> e) @@ idx

\* Lines 179-190: the three Map.set calls, in the order of the code.
setEntryKeys(idx, e) ==
    setKey(setKey(setKey(idx, TRUE, e.name, e),
                  e.module # Undefined /\ e.module # <<>>, e.module, e),
           includes(e.name, <<".">>), lastSegment(e.name), e)

\* Lines 173-177: analyzeContent(name, attrs.description || '') and the
\* registration of what it returns.
registerEntryDeprecation(deps, e) ==
    registerDeprecation(deps, e.name,
        analyzeContent(e.name,
            IF e.description = Undefined THEN <<>> ELSE e.description))

\* The callback of apiDocs.forEach on one item: [apiIndex, deprecations]
\* after it.
indexDoc(parsed, idx, deps) ==
    IF hasEntry(parsed)
    THEN [apiIndex |-> setEntryKeys(idx, apiEntry(parsed)),
          deprecations |-> registerEntryDeprecation(deps, apiEntry(parsed))]
    ELSE [apiIndex |-> idx, deprecations |-> deps]

\* apiDocs.forEach from item i (1-based) on: [apiIndex, deprecations].
RECURSIVE indexDocs(_, _, _)
indexDocs(apiDocs, i, maps) ==
    IF i > Len(apiDocs) THEN maps
    ELSE indexDocs(apiDocs, i + 1,
                   indexDoc(parseJsonPortion(apiDocs[i].content),
                            maps.apiIndex, maps.deprecations))

\* DocumentationService.indexApiDocs on this.sections, this.apiIndex and
\* the deprecations of this.deprecationManager.
indexApiDocs(secs, idx, deps) ==
    indexDocs(sectionItems(secs, API_DOCS), 1,
              [apiIndex |-> idx, deprecations |-> deps])

(***************************************************************************)
(* DeprecationManager.analyzeDocumentation                                 *)
(***************************************************************************)

RECURSIVE lettersEnd(_, _)
lettersEnd(s, i) ==
    IF i < Len(s) /\ IsLetter(s[i + 1]) THEN lettersEnd(s, i + 1) ELSE i

\* BACKTICK([A-Z][a-zA-Z]+)BACKTICK at offset i: the offset of the closing
\* grave accent, or -1.
quotedNameEnd(content, i) ==
    Let(lettersEnd(content, i + 1), LAMBDA e :
        IF /\ content[i + 1] = Backtick
           /\ IsUpper(CharAt(content, i + 1))
           /\ e >= i + 3
           /\ CharAt(content, e) = Backtick
        THEN e ELSE -1)

\* item.content.match(/BACKTICK([A-Z][a-zA-Z]+)BACKTICK/g) from offset i on,
\* each match without its grave accents.
RECURSIVE quotedApiNames(_, _)
quotedApiNames(content, i) ==
    IF i >= Len(content) THEN <<>>
    ELSE IF quotedNameEnd(content, i) = -1 THEN quotedApiNames(content, i + 1)
    ELSE <<substring(content, i + 1, quotedNameEnd(content, i))>>
         \o quotedApiNames(content, quotedNameEnd(content, i) + 1)

\* apiNameMatch.forEach: register what analyzeContent finds for each name.
\* item.link is undefined for the items parseDocumentation builds.
RECURSIVE registerNames(_, _, _)
registerNames(deps, names, content) ==
    IF Len(names) = 0 THEN deps
    ELSE registerNames(
             registerDeprecation(deps, names[1], analyzeContent(names[1], content)),
             Tail(names), content)

RECURSIVE analyzeItems(_, _)
analyzeItems(deps, items) ==
    IF Len(items) = 0 THEN deps
    ELSE analyzeItems(
             registerNames(deps, quotedApiNames(items[1].content, 0),
                           items[1].content),
             Tail(items))

\* DeprecationManager.analyzeDocumentation(sections)
RECURSIVE analyzeDocumentation(_, _)
analyzeDocumentation(deps, secs) ==
    IF Len(secs) = 0 THEN deps
    ELSE analyzeDocumentation(
             IF includes(toLowerCase(secs[1].name), DEPRECATION)
             THEN analyzeItems(deps, secs[1].items)
             ELSE deps,
             Tail(secs))

(***************************************************************************)
(* DocumentationService.parseDocumentation                                 *)
(***************************************************************************)

\* Lines 129-133 on the sections the loop has built: indexApiDocs, then
\* analyzeDocumentation.
indexAndAnalyze(newSecs, indexed) ==
    [sections |-> newSecs,
     apiIndex |-> indexed.apiIndex,
     deprecations |-> analyzeDocumentation(indexed.deprecations, newSecs)]

\* The whole method: [sections, apiIndex, deprecations] after it, from the
\* three the service holds when it is called.
parseDocumentation(secs, idx, deps, text) ==
    Let(segment(secs, text), LAMBDA newSecs :
        indexAndAnalyze(newSecs, indexApiDocs(newSecs, idx, deps)))

\* new Map()
EmptyMap == [k \in {} |-> NullInfo]

\* What parseDocumentation builds from text on a service just constructed.
freshParse(text) == parseDocumentation(<<>>, EmptyMap, EmptyMap, text)

(***************************************************************************)
(* Search Ranker: DocumentationService.search                              *)
(***************************************************************************)

\* SEARCH_CONFIG of lib/config.js.
SEARCH_CONFIG ==
    [EXACT_PHRASE_BONUS |-> 50,
     TITLE_MATCH_BONUS |-> 15,
     TERM_MATCH_WEIGHT |-> 2,
     ALL_TERMS_BONUS |-> 20,
     PROXIMITY_THRESHOLD |-> 500,
     PROXIMITY_BONUS_DIVISOR |-> 50,
     MIN_SCORE |-> 10,
     MIN_SCORE_SINGLE_TERM |-> 15,
     BP_TERM_MATCH_WEIGHT |-> 10,
     BP_ALL_TERMS_BONUS |-> 20,
     BP_STRONG_KEYWORD_WEIGHT |-> 5,
     BP_WEAK_KEYWORD_WEIGHT |-> 2,
     BP_MIN_THRESHOLD |-> 15,
     MAX_BEST_PRACTICES |-> 5]

\* categorizeSectionName(sectionName)
categorizeSectionName(sectionName) ==
    IF sectionName = API_DOCS THEN "API Documentation"
    ELSE IF sectionName = COMMUNITY_BLOGGERS THEN "Community Articles"
    ELSE "Guides & Tutorials"

\* Every section, whatever the category.
sectionsToSearchUnfiltered(secs, category) == sectionNames(secs)

\* The names of sectionsToSearch, in order (lines 214-225).
sectionsToSearch(secs, category) ==
    IF category = "all" THEN sectionNames(secs)
    ELSE IF category = "api" THEN <<API_DOCS>>
    ELSE IF category = "guides"
    THEN SelectSeq(sectionNames(secs),
                   LAMBDA n : n \notin {API_DOCS, COMMUNITY_BLOGGERS})
    ELSE IF category = "community" THEN <<COMMUNITY_BLOGGERS>>
    ELSE <<>>

\* The items of one section, each with the name of the section.
namedItems(items, sectionName) ==
    [i \in 1..Len(items) |-> [sectionName |-> sectionName, content |-> items[i].content]]

\* The items the two nested loops of search visit, in the order they visit
\* them.
RECURSIVE scanItems(_, _)
scanItems(secs, names) ==
    IF Len(names) = 0 THEN <<>>
    ELSE namedItems(sectionItems(secs, names[1]), names[1])
         \o scanItems(secs, Tail(names))

\* new RegExp(term, "gi") throws a SyntaxError.  Of the characters a query
\* of the model can hold, "(" opens a group that nothing closes.
regexThrows(term) == "(" \in Range(term)

\* The pattern term matches content at 0-based offset i: "." matches any
\* character but a line terminator, every other character itself, with
\* letter case ignored.
regexMatchesAt(content, term, i) ==
    /\ i + Len(term) <= Len(content)
    /\ \A k \in 1..Len(term) :
          IF term[k] = "." THEN content[i + k] # "\n"
          ELSE LowerChar(content[i + k]) = LowerChar(term[k])

\* The matches a global scan reports among the offsets hits: the leftmost
\* one at or after from, then the scan resumes behind it.
RECURSIVE countFrom(_, _, _)
countFrom(hits, len, from) ==
    Let({i \in hits : i >= from}, LAMBDA rest :
        IF rest = {} THEN 0
        ELSE 1 + countFrom(hits, len, MinOf(rest) + len))

\* (content.match(new RegExp(term, "gi")) || []).length
matchCount(content, term) ==
    countFrom({i \in 0..(Len(content) - Len(term)) :
                   regexMatchesAt(content, term, i)},
              Len(term), 0)

\* phraseBonus as it would be if line 242 added nothing to the score.
phraseBonusNoScore(content, queryLower) ==
    IF includes(content, queryLower)
    THEN [score |-> 0, matchedTerms |-> <<queryLower>>, termPositions |-> <<>>]
    ELSE [score |-> 0, matchedTerms |-> <<>>, termPositions |-> <<>>]

\* Lines 240-244: score, matchedTerms and termPositions after the phrase test.
phraseBonus(content, queryLower) ==
    IF includes(content, queryLower)
    THEN [score |-> SEARCH_CONFIG.EXACT_PHRASE_BONUS,
          matchedTerms |-> <<queryLower>>, termPositions |-> <<>>]
    ELSE [score |-> 0, matchedTerms |-> <<>>, termPositions |-> <<>>]

\* Lines 250-265: what the callback does for a term with matches > 0.
termMatched(acc, term, matches, inTitle, pos) ==
    [score |-> acc.score
               + (IF inTitle THEN SEARCH_CONFIG.TITLE_MATCH_BONUS ELSE 0)
               + matches * SEARCH_CONFIG.TERM_MATCH_WEIGHT,
     matchedTerms |-> Append(acc.matchedTerms, term),
     termPositions |->
         IF pos # -1
         THEN Append(acc.termPositions, [term |-> term, pos |-> pos])
         ELSE acc.termPositions]

\* One call of the searchTerms.forEach callback (lines 247-266).
termStep(acc, content, titleLower, term) ==
    Let(matchCount(content, term), LAMBDA matches :
        IF matches > 0
        THEN termMatched(acc, term, matches, includes(titleLower, term),
                         indexOf(content, term))
        ELSE acc)

RECURSIVE forEachTerm(_, _, _, _)
forEachTerm(acc, content, titleLower, terms) ==
    IF Len(terms) = 0 THEN acc
    ELSE forEachTerm(termStep(acc, content, titleLower, terms[1]),
                     content, titleLower, Tail(terms))

\* termPositions[length - 1].pos - termPositions[0].pos after the sort.
spreadOf(termPositions) ==
    Let({termPositions[i].pos : i \in 1..Len(termPositions)}, LAMBDA ps :
        MaxOf(ps) - MinOf(ps))

\* Lines 273-280: the proximity bonus for a spread; 0 when there is none.
\* The bonus without the division: the distance to the threshold itself.
proximityBonusUndivided(spread) ==
    IF spread < SEARCH_CONFIG.PROXIMITY_THRESHOLD
    THEN SEARCH_CONFIG.PROXIMITY_THRESHOLD - spread
    ELSE 0

proximityBonus(spread) ==
    IF spread < SEARCH_CONFIG.PROXIMITY_THRESHOLD
    THEN (SEARCH_CONFIG.PROXIMITY_THRESHOLD - spread)
         \div SEARCH_CONFIG.PROXIMITY_BONUS_DIVISOR
    ELSE 0

\* Lines 268-281: the score after the all-terms and proximity bonuses.
allTermsBonus(acc, searchTerms) ==
    IF Len(acc.matchedTerms) = Len(searchTerms)
    THEN acc.score + SEARCH_CONFIG.ALL_TERMS_BONUS
         + (IF Len(acc.termPositions) > 1
            THEN proximityBonus(spreadOf(acc.termPositions))
            ELSE 0)
    ELSE acc.score

\* admitted as it would be without the second conjunct of line 285.
admittedByFloorOnly(score, matchedTerms) == score >= SEARCH_CONFIG.MIN_SCORE

\* The condition of line 285.
admitted(score, matchedTerms) ==
    /\ score >= SEARCH_CONFIG.MIN_SCORE
    /\ \/ matchedTerms >= 2
       \/ score >= SEARCH_CONFIG.MIN_SCORE_SINGLE_TERM

\* result.title.match(/BACKTICK?([A-Z][a-zA-Z]+)BACKTICK?/)?.[1]
titleApiName(title) ==
    Let({i \in 0..(Len(title) - 2) :
            IsUpper(title[i + 1]) /\ IsLetter(title[i + 2])}, LAMBDA starts :
        IF starts = {} THEN Undefined
        ELSE substring(title, MinOf(starts), lettersEnd(title, MinOf(starts))))

PossiblyDeprecated ==
    Info(Undefined, "possibly-deprecated", Undefined, Undefined, Undefined,
         "none", Undefined, Undefined)

\* Lines 248-256 of checkSearchResult: the test of the content.
checkContent(content) ==
    IF \E w \in {<<"d","e","p","r","e","c","a","t","e","d">>, <<"l","e","g","a","c","y">>,
        <<"n","o"," ","l","o","n","g","e","r"," ","r","e","c","o","m","m","e","n","d","e",
        "d">>} :
           TestWord(content, w)
    THEN PossiblyDeprecated
    ELSE NullInfo

\* checkSearchResult with the content tested before the title.
checkSearchResultContentFirst(deps, title, content) ==
    IF title = <<>> THEN NullInfo
    ELSE IF checkContent(content) # NullInfo THEN checkContent(content)
    ELSE IF titleApiName(title) # Undefined /\ isDeprecated(deps, titleApiName(title))
    THEN getDeprecationInfo(deps, titleApiName(title))
    ELSE NullInfo

\* DeprecationManager.checkSearchResult({ title, content })
checkSearchResult(deps, title, content) ==
    IF title = <<>> THEN NullInfo
    ELSE Let(titleApiName(title), LAMBDA apiName :
             IF apiName # Undefined /\ isDeprecated(deps, apiName)
             THEN getDeprecationInfo(deps, apiName)
             ELSE checkContent(content))

\* Lines 285-303: the results the item pushes, none or one.  scanIndex is
\* not a member of the object the code builds; it records where the scan
\* met the item.
pushResult(deps, item, scanIndex, title, score, matchedTerms, totalTerms) ==
    IF admitted(score, matchedTerms)
    THEN << [title |-> title,
             category |-> categorizeSectionName(item.sectionName),
             score |-> score,
             url |-> generateUrl(item.sectionName, title),
             apiLink |-> generateApiLink(item.content),
             matchedTerms |-> matchedTerms,
             totalTerms |-> totalTerms,
             deprecationInfo |-> checkSearchResult(deps, title, item.content),
             scanIndex |-> scanIndex] >>
    ELSE <<>>

\* The body of the inner loop for the item at place scanIndex of the scan.
scoreItem(deps, item, scanIndex, queryLower, searchTerms) ==
    Let(toLowerCase(item.content), LAMBDA content :
    Let(extractTitle(item.content), LAMBDA title :
    Let(forEachTerm(phraseBonus(content, queryLower), content,
                    toLowerCase(title), searchTerms), LAMBDA acc :
        pushResult(deps, item, scanIndex, title,
                   allTermsBonus(acc, searchTerms),
                   Len(acc.matchedTerms), Len(searchTerms)))))

RECURSIVE collectResults(_, _, _, _, _)
collectResults(deps, scan, i, queryLower, searchTerms) ==
    IF i > Len(scan) THEN <<>>
    ELSE scoreItem(deps, scan[i], i, queryLower, searchTerms)
         \o collectResults(deps, scan, i + 1, queryLower, searchTerms)

\* insertByScore as an unstable sort may place r: before its equals.
insertBeforeEquals(sorted, r) ==
    SubSeq(sorted, 1, Cardinality({i \in 1..Len(sorted) : sorted[i].score > r.score}))
    \o <<r>>
    \o SubSeq(sorted, Cardinality({i \in 1..Len(sorted) : sorted[i].score > r.score}) + 1,
              Len(sorted))

\* The place a stable sort by descending score gives r among sorted.
insertByScore(sorted, r) ==
    Let(Cardinality({i \in 1..Len(sorted) : sorted[i].score >= r.score}), LAMBDA k :
        SubSeq(sorted, 1, k) \o <<r>> \o SubSeq(sorted, k + 1, Len(sorted)))

\* results.sort((a, b) => b.score - a.score)
RECURSIVE sortByScore(_)
sortByScore(results) ==
    IF Len(results) = 0 THEN <<>>
    ELSE insertByScore(sortByScore(SubSeq(results, 1, Len(results) - 1)),
                       results[Len(results)])

\* Array.prototype.slice(0, limit) for limit >= 0
slice(results, limit) == SubSeq(results, 1, Min(limit, Len(results)))

\* The loops, the sort and the slice of search on the items scan.  The
\* RegExp constructor throws in the callback of the first item the scan
\* visits.
searchItems(deps, scan, queryLower, searchTerms, limit) ==
    IF Len(scan) > 0 /\ \E k \in 1..Len(searchTerms) : regexThrows(searchTerms[k])
    THEN [error |-> "SyntaxError", results |-> <<>>]
    ELSE [error |-> "none",
          results |-> slice(sortByScore(collectResults(deps, scan, 1,
                                                      queryLower, searchTerms)),
                            limit)]

\* DocumentationService.search(query, category, limit): the list it resolves
\* to, or the error it rejects with.
search(secs, deps, query, category, limit) ==
    Let(toLowerCase(query), LAMBDA queryLower :
        searchItems(deps, scanItems(secs, sectionsToSearch(secs, category)),
                    queryLower, splitWhitespace(queryLower), limit))

(***************************************************************************)
(* DeprecationManager.generateWarning                                      *)
(***************************************************************************)

\* A value is truthy: neither undefined or null nor the empty string.
truthy(s) == s # Undefined /\ s # <<>>

\* What a template literal writes for a value.
templateString(v) ==
    IF v = Undefined THEN <<"u","n","d","e","f","i","n","e","d">> ELSE v

\* The icon of line 192, two UTF-16 code units each.
iconOf(info) ==
    IF info.severity = "warning" THEN <<"U+26A0", "U+FE0F">>
    ELSE <<"U+2139", "U+FE0F">>

\* shortWarning as it would be if line 195 wrote the marker only with since.
shortWarningSinceOnly(info) ==
    IF truthy(info.since)
    THEN iconOf(info) \o <<" ","(","s","i","n","c","e"," ","v">> \o info.since \o <<")">>
    ELSE <<>>

\* Lines 194-196: the short format.
shortWarning(info) ==
    iconOf(info) \o <<" ","*","*","D","e","p","r","e","c","a","t","e","d","*","*">>
    \o (IF truthy(info.since)
        THEN <<" ","(","s","i","n","c","e"," ","v">> \o info.since \o <<")">>
        ELSE <<>>)

\* Lines 198-203: the inline format.
inlineWarning(info) ==
    iconOf(info) \o <<" ","*","*","D","e","p","r","e","c","a","t","e","d","*","*">>
    \o (IF truthy(info.since) THEN <<" ","s","i","n","c","e"," ","v">> \o info.since ELSE <<>>)
    \o (IF truthy(info.modernAlternative)
        THEN <<" ","-"," ","U","s","e"," ">> \o info.modernAlternative \o <<" ","i","n","s","t","e","a","d">>
        ELSE <<>>)

\* Lines 205-228: the banner format.
bannerWarning(info) ==
    <<"\n",">"," ">> \o iconOf(info) \o <<" ","*","*","D","E","P","R","E","C","A","T","I","O","N"," ","W","A","R","N","I",
        "N","G","*","*","\n",">","\n">>
    \o <<">"," ","*","*",Backtick>> \o templateString(info.name) \o <<Backtick," ","i","s"," ","d","e","p","r","e","c","a","t","e","d","*","*">>
    \o (IF truthy(info.since) THEN <<" ","s","i","n","c","e"," ","E","m","b","e","r"," ","v">> \o info.since ELSE <<>>)
    \o <<"\n",">","\n">>
    \o (IF truthy(info.reason) THEN <<">", " ">> \o info.reason \o <<"\n",">","\n">> ELSE <<>>)
    \o (IF truthy(info.modernAlternative)
        THEN <<">"," ","*","*","M","o","d","e","r","n"," ","A","l","t","e","r","n","a","t","i",
        "v","e",":","*","*"," ">> \o info.modernAlternative \o <<"\n",">","\n">>
        ELSE <<>>)
    \o (IF truthy(info.deprecationGuideLink)
        THEN <<">"," ","[","V","i","e","w"," ","D","e","p","r","e","c","a","t","i","o","n"," ",
        "G","u","i","d","e","]","(">> \o info.deprecationGuideLink \o <<")", "\n">>
        ELSE <<>>)
    \o <<"\n">>

\* The body of generateWarning for the info the lookup gave.
warningOf(info, format) ==
    IF info = NullInfo THEN <<>>
    ELSE IF format = "short" THEN shortWarning(info)
    ELSE IF format = "inline" THEN inlineWarning(info)
    ELSE bannerWarning(info)

\* DeprecationManager.generateWarning(name, format)
generateWarning(deps, name, format) ==
    warningOf(getDeprecationInfo(deps, name), format)

(***************************************************************************)
(* DocumentationService.getApiReference                                    *)
(***************************************************************************)

\* What getApiReference resolves to.  found = FALSE is null.  The object of
\* the fallback path has no deprecationInfo member.
ApiReference(found, entry, apiUrl, hasDeprecationInfo, deprecationInfo) ==
    [found |-> found, name |-> entry.name, type |-> entry.type,
     module |-> entry.module, description |-> entry.description,
     apiUrl |-> apiUrl, hasDeprecationInfo |-> hasDeprecationInfo,
     deprecationInfo |-> deprecationInfo]

NullReference ==
    ApiReference(FALSE, apiEntry(SyntaxError), NoLink, FALSE, NullInfo)

\* contentHasKey as it would be if line 516 tested nothing.
contentHasKeyAlways(doc, key) == TRUE

\* The test of line 516 on one item of the api-docs section.
contentHasKey(doc, key) == includes(toLowerCase(doc.content), key)

\* Lines 518-537 on the document parsed from an item: the object returned,
\* NullReference when the loop goes on to the next item.
referenceFromContent(parsed, apiLink) ==
    IF parsed # SyntaxError /\ parsed.hasAttributes
    THEN ApiReference(TRUE, apiEntry(parsed), apiLink, FALSE, NullInfo)
    ELSE NullReference

\* The loop of lines 515-541 from item i (1-based) on.
RECURSIVE extractFromContent(_, _, _, _)
extractFromContent(apiDocs, i, key, apiLink) ==
    IF i > Len(apiDocs) THEN NullReference
    ELSE Let(IF contentHasKey(apiDocs[i], key)
             THEN referenceFromContent(parseDataObject(apiDocs[i].content), apiLink)
             ELSE NullReference, LAMBDA reference :
             IF reference.found THEN reference
             ELSE extractFromContent(apiDocs, i + 1, key, apiLink))

\* lookupKey as it would be without toLowerCase at line 506.
lookupKeyVerbatim(name) == name

\* The key getApiReference reads the index with.
lookupKey(name) == toLowerCase(name)

\* Lines 545-553: the object built from an entry of the index.
referenceFromIndex(deps, entry) ==
    ApiReference(TRUE, entry, generateApiUrl(entry.name, entry.type), TRUE,
                 getDeprecationInfo(deps, entry.name))

\* Lines 511-543: the fallback, from what search(name, "api", 1) gave.
referenceFromSearch(apiDocs, key, found) ==
    IF found.error # "none"
    THEN [error |-> found.error, value |-> NullReference]
    ELSE IF Len(found.results) > 0 /\ found.results[1].apiLink # NoLink
    THEN [error |-> "none",
          value |-> extractFromContent(apiDocs, 1, key, found.results[1].apiLink)]
    ELSE [error |-> "none", value |-> NullReference]

\* DocumentationService.getApiReference(name): the value it resolves to, or
\* the error it rejects with.
getApiReference(secs, idx, deps, name) ==
    Let(lookupKey(name), LAMBDA key :
        IF key \in DOMAIN idx
        THEN [error |-> "none", value |-> referenceFromIndex(deps, idx[key])]
        ELSE referenceFromSearch(sectionItems(secs, API_DOCS), key,
                                 search(secs, deps, name, "api", 1)))

(***************************************************************************)
(* Morphology Helper: pluralize with the rules of PLURALIZATION_RULES      *)
(***************************************************************************)

\* String.prototype.endsWith
endsWith(s, p) == Len(p) <= Len(s) /\ OccursAt(s, p, Len(s) - Len(p))

\* s without its last n characters.
dropLast(s, n) == SubSeq(s, 1, Len(s) - n)

\* PLURALIZATION_RULES.uncountable, given to pluralize.addUncountableRule.
UNCOUNTABLE == {<<"d","a","t","a">>}

\* The irregular words of pluralize that the texts of the model hold.
IRREGULAR == {[single |-> <<"p","e","r","s","o","n">>, many |-> <<"p","e","o","p","l","e">>]}

irregularOf(word) == CHOOSE r \in IRREGULAR : word \in {r.single, r.many}

\* pluralize.singular(word) for a lowercase word: the uncountable words and
\* the irregular ones first, then the rule /caches$/i -> 'cache' of
\* PLURALIZATION_RULES.singularRules, then the rules of the library for
\* -ches, -shes, -xes, -sses, -ss and -s.
singular(word) ==
    IF word \in UNCOUNTABLE THEN word
    ELSE IF \E r \in IRREGULAR : word \in {r.single, r.many} THEN irregularOf(word).single
    ELSE IF endsWith(word, <<"c","a","c","h","e","s">>) THEN dropLast(word, 1)
    ELSE IF \E e \in {<<"c","h","e","s">>, <<"s","h","e","s">>, <<"x","e","s">>, <<"s","s","e","s">>} : endsWith(word, e)
    THEN dropLast(word, 2)
    ELSE IF endsWith(word, <<"s","s">>) THEN word
    ELSE IF endsWith(word, <<"s">>) THEN dropLast(word, 1)
    ELSE word

\* pluralize.plural(word) for a lowercase word.
plural(word) ==
    IF word \in UNCOUNTABLE THEN word
    ELSE IF \E r \in IRREGULAR : word \in {r.single, r.many} THEN irregularOf(word).many
    ELSE IF \E e \in {<<"c","h">>, <<"s","h">>, <<"x">>, <<"s","s">>} : endsWith(word, e) THEN word \o <<"e","s">>
    ELSE IF endsWith(word, <<"s">>) THEN word
    ELSE word \o <<"s">>

\* toSingular(word)
toSingular(word) == singular(word)

(***************************************************************************)
(* Best-Practice Matcher: DocumentationService.getBestPractices            *)
(***************************************************************************)

\* BEST_PRACTICES_KEYWORDS of lib/config.js
BEST_PRACTICES_KEYWORDS ==
    [strong |-> <<<<"b","e","s","t"," ","p","r","a","c","t","i","c","e">>, <<"r","e","c","o","m","m","e","n","d","e","d"," ","a","p","p","r","o","a","c","h">>, <<"m","o","d","e","r","n"," ","p","a","t","t","e","r","n">>, <<"i","d","i","o","m","a","t","i","c">>,
                  <<"a","n","t","i","-","p","a","t","t","e","r","n">>, <<"m","i","g","r","a","t","i","o","n"," ","g","u","i","d","e">>>>,
     weak |-> <<<<"t","i","p">>, <<"p","e","r","f","o","r","m","a","n","c","e">>, <<"r","e","c","o","m","m","e","n","d","e","d">>, <<"s","h","o","u","l","d">>, <<"m","o","d","e","r","n">>>>]

\* topicLower.split(/\s+/).filter(term => term.length > 2)
topicTermsOf(topicLower) == SelectSeq(splitWhitespace(topicLower), LAMBDA term : Len(term) > 2)

\* allSections: the community-bloggers items, then the items of every
\* section other than api-docs and community-bloggers, in insertion order.
\* A mutant: only community-bloggers is left out of the other sections.
allSectionsWithApiDocs(secs) ==
    namedItems(sectionItems(secs, COMMUNITY_BLOGGERS), COMMUNITY_BLOGGERS)
    \o scanItems(secs, SelectSeq(sectionNames(secs),
                                 LAMBDA name : name # COMMUNITY_BLOGGERS))

allSections(secs) ==
    namedItems(sectionItems(secs, COMMUNITY_BLOGGERS), COMMUNITY_BLOGGERS)
    \o scanItems(secs, SelectSeq(sectionNames(secs),
                                 LAMBDA name : name \notin {API_DOCS, COMMUNITY_BLOGGERS}))

\* The callback of topicTerms.filter: the term, its singular or its plural
\* occurs in the lowercased content.
matchesTermExactOnly(content, term) == includes(content, term)

matchesTerm(content, term) ==
    \/ includes(content, term)
    \/ toSingular(term) # term /\ includes(content, toSingular(term))
    \/ plural(term) # term /\ includes(content, plural(term))

\* keywords.filter(keyword => content.includes(keyword)).length
keywordMatches(content, keywords) ==
    Cardinality({k \in 1..Len(keywords) : includes(content, keywords[k])})

matchedTermCount(content, topicTerms) ==
    Cardinality({k \in 1..Len(topicTerms) : matchesTerm(content, topicTerms[k])})

\* The score of a document with matched topic terms.
\* A mutant: the weak keywords count whether a strong one matched or not.
practiceScoreWeakAlways(content, topicTerms, matched, strongMatches) ==
    matched * SEARCH_CONFIG.BP_TERM_MATCH_WEIGHT
    + (IF matched = Len(topicTerms) THEN SEARCH_CONFIG.BP_ALL_TERMS_BONUS ELSE 0)
    + strongMatches * SEARCH_CONFIG.BP_STRONG_KEYWORD_WEIGHT
    + keywordMatches(content, BEST_PRACTICES_KEYWORDS.weak)
      * SEARCH_CONFIG.BP_WEAK_KEYWORD_WEIGHT

practiceScore(content, topicTerms, matched, strongMatches) ==
    matched * SEARCH_CONFIG.BP_TERM_MATCH_WEIGHT
    + (IF matched = Len(topicTerms) THEN SEARCH_CONFIG.BP_ALL_TERMS_BONUS ELSE 0)
    + strongMatches * SEARCH_CONFIG.BP_STRONG_KEYWORD_WEIGHT
    + (IF strongMatches > 0
       THEN keywordMatches(content, BEST_PRACTICES_KEYWORDS.weak)
            * SEARCH_CONFIG.BP_WEAK_KEYWORD_WEIGHT
       ELSE 0)

\* The score of doc.content for the topic terms; -1 for a document the loop
\* leaves with continue before it has one (no term matched).
scoreOf(docContent, topicTerms) ==
    Let(matchedTermCount(toLowerCase(docContent), topicTerms), LAMBDA matched :
        IF matched = 0 THEN -1
        ELSE practiceScore(toLowerCase(docContent), topicTerms, matched,
                           keywordMatches(toLowerCase(docContent),
                                          BEST_PRACTICES_KEYWORDS.strong)))

(***************************************************************************)
(* DocumentationService.extractBestPracticeSections                        *)
(***************************************************************************)

FENCE == <<Backtick, Backtick, Backtick>>

\* line.match(/^[#\-=]+$/)
isRuleLine(line) == Len(line) > 0 /\ \A k \in 1..Len(line) : line[k] \in {"#", "-", "="}

\* line.match(/^# [^#]/)
isTopHeader(line) == Len(line) >= 3 /\ line[1] = "#" /\ line[2] = " " /\ line[3] # "#"

\* The state of the loop before its first line.
ExtractStart ==
    [relevantContent |-> <<>>, examples |-> <<>>, antiPatterns |-> <<>>,
     inCodeBlock |-> FALSE, currentExample |-> <<>>, foundRelevant |-> FALSE]

\* A line that opens or closes a code block.
fenceStep(st, line) ==
    IF ~st.inCodeBlock
    THEN [st EXCEPT !.inCodeBlock = TRUE, !.currentExample = <<line>>]
    ELSE [st EXCEPT !.inCodeBlock = FALSE,
                    !.currentExample = <<>>,
                    !.examples = IF st.foundRelevant /\ Len(st.currentExample) + 1 > 2
                                 THEN Append(@, join(Append(st.currentExample, line), "\n"))
                                 ELSE @]

\* The term, its singular or its plural occurs in the lowercased line.
lineMatchesTerm(lineLower, term) ==
    \/ includes(lineLower, term)
    \/ toSingular(term) # term /\ includes(lineLower, toSingular(term))
    \/ plural(term) # term /\ includes(lineLower, plural(term))

isRelevantLine(lineLower, topicTerms) ==
    \E k \in 1..Len(topicTerms) : lineMatchesTerm(lineLower, topicTerms[k])

\* lines.slice(i, i + 3).join(" ").trim(), i the 1-based place of the line
nextLinesOf(lines, i) == trim(join(SubSeq(lines, i, Min(i + 2, Len(lines))), " "))

hasNegativeFraming(lineLower) ==
    \E marker \in {<<"a","v","o","i","d">>, <<"d","o","n","'","t">>, <<"a","n","t","i","-","p","a","t","t","e","r","n">>, <<"b","a","d"," ","p","r","a","c","t","i","c","e">>} :
        includes(lineLower, marker)

\* What a relevant line adds while fewer than 50 lines are collected.
collectLine(st, lines, i) ==
    [st EXCEPT
        !.antiPatterns =
            IF /\ hasNegativeFraming(toLowerCase(lines[i]))
               /\ Len(nextLinesOf(lines, i)) > 10
               /\ Len(nextLinesOf(lines, i)) < 200
            THEN Append(@, nextLinesOf(lines, i)) ELSE @,
        !.relevantContent =
            IF /\ trim(lines[i]) # <<>>
               /\ ~isRuleLine(lines[i])
               /\ ~startsWith(trim(lines[i]), <<"{">>)
            THEN Append(@, lines[i]) ELSE @]

\* A line outside a code block.
proseStep(st, lines, i, found) ==
    IF found /\ Len(st.relevantContent) < 50
    THEN collectLine([st EXCEPT !.foundRelevant = found], lines, i)
    ELSE [st EXCEPT !.foundRelevant = found]

\* The loop over the lines from line i on.
RECURSIVE extractLines(_, _, _, _)
extractLines(lines, topicTerms, i, st) ==
    IF i > Len(lines) THEN st
    ELSE IF startsWith(trim(lines[i]), FENCE)
    THEN extractLines(lines, topicTerms, i + 1, fenceStep(st, lines[i]))
    ELSE IF st.inCodeBlock
    THEN extractLines(lines, topicTerms, i + 1,
                      [st EXCEPT !.currentExample = Append(@, lines[i])])
    ELSE Let(proseStep(st, lines, i,
                       st.foundRelevant
                       \/ isRelevantLine(toLowerCase(lines[i]), topicTerms)),
             LAMBDA next :
                 IF next.foundRelevant /\ isTopHeader(lines[i]) THEN next
                 ELSE extractLines(lines, topicTerms, i + 1, next))

\* [...new Set(antiPatterns)]: the first occurrence of each member, in order
unique(list) ==
    SelectSeq([k \in 1..Len(list) |->
                  IF \E j \in 1..(k - 1) : list[j] = list[k] THEN Undefined ELSE list[k]],
              LAMBDA x : x # Undefined)

extractBestPracticeSections(content, topic) ==
    Let(extractLines(split(content, "\n"), topicTermsOf(topic), 1, ExtractStart),
        LAMBDA st :
            [content |-> trim(join(slice(st.relevantContent, 30), "\n")),
             examples |-> slice(st.examples, 3),
             antiPatterns |-> slice(unique(st.antiPatterns), 3)])

(***************************************************************************)
(* The loop, the sort and the slice of getBestPractices                    *)
(***************************************************************************)

\* practices.push({...}) when relevantSections.content is not empty;
\* scanIndex is the place of the document in allSections.
pushPractice(title, relevantSections, score, scanIndex) ==
    IF relevantSections.content # <<>>
    THEN << [title |-> title,
             content |-> relevantSections.content,
             examples |-> relevantSections.examples,
             antiPatterns |-> relevantSections.antiPatterns,
             references |-> <<generateUrl(COMMUNITY_BLOGGERS, title)>>,
             score |-> score,
             scanIndex |-> scanIndex] >>
    ELSE <<>>

\* seenTitles.has(title.toLowerCase())
isDuplicateVerbatim(seenTitles, title) == title \in seenTitles

isDuplicate(seenTitles, title) == toLowerCase(title) \in seenTitles

\* for (const doc of allSections), from document i on.
RECURSIVE collectPractices(_, _, _, _, _)
collectPractices(pool, i, topicLower, topicTerms, seenTitles) ==
    IF i > Len(pool) THEN <<>>
    ELSE IF scoreOf(pool[i].content, topicTerms) < SEARCH_CONFIG.BP_MIN_THRESHOLD
    THEN collectPractices(pool, i + 1, topicLower, topicTerms, seenTitles)
    ELSE Let(extractTitle(pool[i].content), LAMBDA title :
             IF isDuplicate(seenTitles, title)
             THEN collectPractices(pool, i + 1, topicLower, topicTerms, seenTitles)
             ELSE pushPractice(title,
                               extractBestPracticeSections(pool[i].content, topicLower),
                               scoreOf(pool[i].content, topicTerms), i)
                  \o collectPractices(pool, i + 1, topicLower, topicTerms,
                                      seenTitles \cup {toLowerCase(title)}))

\* const { score, ...practiceWithoutScore } = practice
withoutScore(practice) ==
    [f \in DOMAIN practice \ {"score"} |-> practice[f]]

getBestPractices(secs, topic) ==
    Let(slice(sortByScore(collectPractices(allSections(secs), 1, toLowerCase(topic),
                                           topicTermsOf(toLowerCase(topic)), {})),
              SEARCH_CONFIG.MAX_BEST_PRACTICES),
        LAMBDA top : [k \in 1..Len(top) |-> withoutScore(top[k])])

(***************************************************************************)
(* formatSearchResults (lib/formatters.js)                                 *)
(***************************************************************************)

\* `${n}` for a natural number n
RECURSIVE decimal(_)
decimal(n) ==
    IF n < 10 THEN <<(<<"0","1","2","3","4","5","6","7","8","9">>)[n + 1]>>
    ELSE decimal(n \div 10) \o decimal(n % 10)

\* result.deprecationInfo && result.deprecationInfo.status !== 'possibly-deprecated'
hasResolvedRecord(result) ==
    result.deprecationInfo # NullInfo /\ result.deprecationInfo.status # "possibly-deprecated"

\* deprecationManager.generateWarning(result.title, format)
warningFor(deps, result, format) == generateWarning(deps, result.title, format)

\* `## ${index + 1}. ${result.title}` and the short deprecation indicator
titleLine(deps, result, index) ==
    <<"#","#"," ">> \o decimal(index + 1) \o <<"."," ">> \o result.title
    \o (IF hasResolvedRecord(result)
        THEN <<" ">> \o warningFor(deps, result, "short")
        ELSE <<>>)

\* The inline deprecation warning below the match line; Undefined when the
\* result gets none.
inlineLine(deps, result) ==
    IF hasResolvedRecord(result) THEN warningFor(deps, result, "inline") ELSE Undefined

\* The parts of the output that depend on the deprecation record, one
\* record of them for each result, in order.  The category, the match
\* quality, the excerpt and the links are written whatever the record is.
formatSearchResults(results, deps) ==
    [k \in 1..Len(results) |->
        [title |-> titleLine(deps, results[k], k - 1),
         inline |-> inlineLine(deps, results[k])]]

(***************************************************************************)
(* The corpora, queries and names of the model                             *)
(***************************************************************************)

\* How many times one service parses a corpus.
MaxLoads == 2

\* The largest limit a search is given.
MaxLimit == 3

\* How many tool calls the server receives.
MaxCalls == 2

\* The limit handleSearchDocs gives search when the request names none.
DEFAULT_LIMIT == 5

\* A run of text that holds no word of any query, as long as the proximity
\* threshold.
Filler == [i \in 1..SEARCH_CONFIG.PROXIMITY_THRESHOLD |-> "z"]

\* An api-docs section of six items: the class Comp, a data object without
\* attributes, the class E.Comp, text that is no JSON, attributes without a
\* name and the module Svc.
K_API ==
    <<"#"," ","a","p","i","-","d","o","c","s","\n">>
    \o JSONstringify(DOC_COMP) \o <<"\n","-","-","-","\n","b","a","r","e","\n">>
    \o JSONstringify(DOC_BARE) \o <<"\n","-","-","-","\n","E",".","C","o","m","p"," ","c",
        "l","a","s","s","\n">>
    \o JSONstringify(DOC_ECOMP) \o <<"\n","-","-","-","\n","b","r","o","k","e","n","\n","{",
        "o","o","p","s","}","\n","-","-","-","\n","n","o","n","a","m","e","\n">>
    \o JSONstringify(DOC_NONAME) \o <<"\n","-","-","-","\n","S","v","c"," ","m","o","d","u",
        "l","e","\n">>
    \o JSONstringify(DOC_SVC)

\* An api-docs section whose one item holds the class E.Comp.
K_ONE == <<"#"," ","a","p","i","-","d","o","c","s","\n">> \o JSONstringify(DOC_ECOMP)

\* Three guides (one term five times; four terms with the last a filler away
\* from the others; the same terms adjacent), a community article and a
\* deprecation guide.
K_GUIDE ==
    <<"#"," ","g","u","i","d","e","s","\n","a","b"," ","a","b"," ","a","b"," ","a","b"," ",
        "a","b","\n","-","-","-","\n","#","#"," ","a","b"," ","c","d"," ","e","f","\n","i",
        "j"," ">>
    \o Filler
    \o <<" ","g","h","\n","-","-","-","\n","z","z","z","z"," ","z","z","z","z"," ","z","z",
        "z","z","\n","a","b"," ","c","d"," ","e","f"," ","g","h"," ","i","j","\n">>
    \o <<"#"," ","c","o","m","m","u","n","i","t","y","-","b","l","o","g","g","e","r","s",
        "\n","a","b"," ","p","o","s","t","\n","l","e","g","a","c","y"," ","C","o","m","p",
        " ","n","o","t","e","s","\n">>
    \o <<"#"," ","d","e","p","r","e","c","a","t","i","o","n","s","\n","T","h","e"," ",
        Backtick,"F","o","o",Backtick," ","i","s"," ","d","e","p","r","e","c","a","t","e",
        "d"," ","s","i","n","c","e"," ","v","1",".","2","."," ","U","s","e"," ",Backtick,
        "B","a","r",Backtick," ","i","n","s","t","e","a","d",".">>

\* Two sections for getBestPractices.  community-bloggers: an article with
\* the singular "component" only; an article whose one "component" is inside
\* a code block; an article titled "data tips" with the plural "people"
\* only.  guides: a guide with "caches" and the singular "person" only; a
\* guide titled "Data Tips"; a guide titled "code only" with "cache".
K_BP ==
    <<"#"," ","c","o","m","m","u","n","i","t","y","-","b","l","o","g","g","e","r","s","\n",
        "B","e","s","t"," ","p","r","a","c","t","i","c","e"," ","f","o","r"," ","c","o","m","p",
        "o","n","e","n","t"," ","a","r","c","h","i","t","e","c","t","u","r","e",".","\n","-",
        "-","-","\n">>
    \o <<"#","#"," ","C","o","d","e"," ","O","n","l","y","\n",Backtick,Backtick,Backtick,"\n",
        "c","o","m","p","o","n","e","n","t","\n",Backtick,Backtick,Backtick,"\n","-","-","-",
        "\n">>
    \o <<"#","#"," ","d","a","t","a"," ","t","i","p","s","\n","A","v","o","i","d"," ","s","t",
        "a","l","e"," ","d","a","t","a"," ","i","n"," ","p","e","o","p","l","e"," ","l","i","s",
        "t","s",".","\n">>
    \o <<"#"," ","g","u","i","d","e","s","\n","M","o","d","e","r","n"," ","p","a","t","t","e",
        "r","n",":"," ","u","s","e"," ","c","a","c","h","e","s"," ","f","o","r"," ","a"," ","p",
        "e","r","s","o","n",".","\n","-","-","-","\n">>
    \o <<"#","#"," ","D","a","t","a"," ","T","i","p","s","\n","B","e","s","t"," ","p","r","a",
        "c","t","i","c","e",":"," ","l","o","a","d"," ","d","a","t","a"," ","l","a","z","i","l",
        "y",".","\n","-","-","-","\n">>
    \o <<"#","#"," ","c","o","d","e"," ","o","n","l","y","\n","I","d","i","o","m","a","t","i",
        "c"," ","c","o","m","p","o","n","e","n","t"," ","c","o","d","e"," ","i","n"," ","a"," ",
        "c","a","c","h","e",".">>

\* The corpus of the test "should handle multiple items in same section"
\* without its blank lines: three items of one line each.
K_SEG == <<"#"," ","g","u","i","d","e","s","\n","F","i","r","s","t"," ","i","t","e","m","\n","-","-",
    "-","\n","S","e","c","o","n","d"," ","i","t","e","m","\n","-","-","-","\n","T","h","i","r",
    "d"," ","i","t","e","m">>

\* The corpora getBestPractices is asked about.
\* A corpus with lines before its first header, a separator right after a
\* header, two separators in a row and a section that is opened twice.
K_PRE ==
    <<"i","n","t","r","o"," ","l","i","n","e","\n","-","-","-","\n","#"," ","g","u","i","d",
        "e","s","\n","-","-","-","\n","a","l","p","h","a","\n","b","e","t","a","\n","-","-","-",
        "\n","-","-","-","\n","g","a","m","m","a","\n","d","e","l","t","a","\n","-","-","-",
        "\n">>
    \o <<"#"," ","o","t","h","e","r","-","n","o","t","e","s","\n","z","e","t","a"," ","t","i","p",":"," ",
        "y","o","u"," ","s","h","o","u","l","d"," ","g","o"," ","m","o","d","e","r","n","\n",
        "#"," ","g","u","i","d","e","s","\n","e","p","s","i","l","o","n","\n">>

PracticeCorpora == {K_BP, K_API, K_SEG, K_PRE}

\* The topics getBestPractices is given.
Topics ==
    {<<"c","o","m","p","o","n","e","n","t">>, <<"c","o","m","p","o","n","e","n","t","s">>, <<"p","e","r","s","o","n">>, <<"p","e","o","p","l","e">>, <<"d","a","t","a">>, <<"D","a","t","a">>, <<"c","a","c","h","e">>, <<"c","a","c","h","e","s">>,
     <<"g","u","i","d","e","s">>, <<"c","o","m","p">>, <<"s","t","a","l","e"," ","c","o","m","p","o","n","e","n","t">>, <<"c","o","d","e"," ","o","n","l","y">>, <<"z","z">>, <<>>,
     <<"z","e","t","a"," ","q","q","q">>}

Corpora == {K_API, K_ONE, K_GUIDE}

\* The texts a fetch of the documentation resolves with.
Responses == {K_API, K_ONE}

Queries ==
    {<<"a","b"," ","c","d"," ","e","f"," ","g","h">>, <<"g","h"," ","i","j">>, <<"a","b",
        " ","q","q">>, <<"A","B">>, <<>>, <<"a",".">>, <<"(">>,
     <<"z","q">>, <<"c","o","m","p">>, <<"d","e","p","r","e","c","a","t","e","d">>}

Categories == {"all", "api", "guides", "community", "other"}

\* The searches of the model: every query over all sections, and three of
\* them in every category.
Searches ==
    (Queries \X {"all"}) \cup ({<<"A","B">>, <<"(">>, <<"c","o","m","p">>} \X Categories)

Limits == {1, MaxLimit}

Names ==
    {<<"C","o","m","p">>, <<"c","o","m","p">>, <<"C","O","M","P">>, <<"E",".","C","o","m",
        "p">>, <<"e",".","c","o","m","p">>, <<"@","e","/","c">>,
     <<"@","E","/","C">>, <<"@","g","/","c">>, <<"S","v","c">>, <<"c","l","a","s","s">>, <<"C","l","a","s","s">>,
         <<"c",".","m","p">>, <<"(">>, <<"z","q">>}

\* How many registerDeprecation calls the manager is given.
MaxRegisters == 2

\* The names the manager is asked about; the first four are registered too.
RegisterNames ==
    {<<"F","o","o">>, <<"F","O","O">>, <<"A","r","r","a","y","P","r","o","x","y">>, <<>>}

ManagerNames ==
    RegisterNames \cup {<<"a","r","r","a","y","P","R","O","X","Y">>, <<"E","v","e","n","t","e","d">>}

\* The infos registerDeprecation is given; NullInfo is null.
RegisterInfos ==
    {Info(<<"F","o","o">>, "deprecated", <<"4",".","0">>, Undefined, <<"B","a","r">>, "warning", Undefined, Undefined),
     Info(<<"A","r","r","a","y","P","r","o","x","y">>, "deprecated", Undefined, <<"o","l","d">>,
          Undefined, "info", Undefined, <<"g","/","a","p">>),
     NullInfo}

Formats == {"short", "inline", "banner"}

\* The titles and contents checkSearchResult is given; Undefined is a
\* result without the member.
ResultTitles ==
    {<<>>, <<"A","r","r","a","y","P","r","o","x","y"," ","D","o","c","u","m","e","n","t","a","t","i","o","n">>,
     <<"t","h","e"," ",Backtick,"F","o","o",Backtick," ","n","o","t","e","s">>, <<"S","o","m","e"," ","A","P","I">>}

ResultContents ==
    {Undefined, <<"T","h","i","s"," ","A","P","I"," ","i","s"," ","d","e","p","r","e","c","a","t","e","d"," ","a","n","d"," ","s","h","o","u","l","d"," ","n","o","t"," ","b","e"," ","u","s","e","d",".">>,
     <<"P","l","e","a","s","e"," ","a","v","o","i","d"," ","u","s","i","n","g"," ","i","t",".">>,
     <<"C","o","m","p","o","n","e","n","t","s"," ","a","r","e"," ","t","h","e"," ","c","o","r","e",".">>}

\* A guides section about the seeded name ArrayProxy: an introduction, a
\* guide whose title is the name followed by a word, and a guide whose title
\* is the name alone.
K_DEP ==
    <<"#"," ","g","u","i","d","e","s","\n","i","n","t","r","o","d","u","c","t","i","o","n",
        "\n","-","-","-","\n","#","#"," ","A","r","r","a","y","P","r","o","x","y"," ","D","o",
        "c","u","m","e","n","t","a","t","i","o","n","\n","H","o","w"," ","a","r","r","a","y",
        "p","r","o","x","y"," ","w","r","a","p","s"," ","a","r","r","a","y","s",".","\n","-",
        "-","-","\n">>
    \o <<"#","#"," ","A","r","r","a","y","P","r","o","x","y","\n","T","h","e"," ","a","r","r",
        "a","y","p","r","o","x","y"," ","c","l","a","s","s",".">>

\* The corpora, searches, names and topics of the queries that follow a load.
QueryCorpora == {K_DEP, K_GUIDE, K_API}

QuerySearches ==
    {<<<<"a","r","r","a","y","p","r","o","x","y">>, "all">>, <<<<"d","e","p","r","e","c","a","t","e","d">>, "guides">>, <<<<"c","o","m","p">>, "api">>,
     <<<<"c","d"," ","a","b">>, "guides">>, <<<<"a","b"," ","c","d"," ","q","q">>, "guides">>}

QueryNames == {<<"C","o","m","p">>, <<"z","q">>}

QueryTopics == {<<"c","o","m","p","o","n","e","n","t">>, <<"a","r","r","a","y","p","r","o","x","y">>}

QueryWarnings == {<<"F","o","o">>, <<"A","r","r","a","y","P","r","o","x","y">>, <<"C","o","m","p">>}

\* The tool calls a client sends the server.
Requests ==
    {[tool |-> "search_ember_docs", text |-> <<"A","B">>, category |-> "all",
      limit |-> DEFAULT_LIMIT],
     [tool |-> "get_api_reference", text |-> <<"C","o","m","p">>, category |-> "",
      limit |-> 0],
     [tool |-> "unknown_tool", text |-> <<>>, category |-> "", limit |-> 0]}

(***************************************************************************)
(* The service and the server as a state machine                           *)
(***************************************************************************)

VARIABLES
    documentation,  \* this.documentation; <<>> is null
    sections,       \* this.sections, in insertion order
    apiIndex,       \* this.apiIndex
    loaded,         \* this.loaded
    deprecations,   \* this.deprecationManager.deprecations
    loads,          \* history: the texts parseDocumentation was given
    registered,     \* history: the registerDeprecation calls made on the manager
    ret,            \* what the last query resolved to or rejected with
    calls           \* the tool calls of the server: request and position

vars ==
    <<documentation, sections, apiIndex, loaded, deprecations, loads, registered, ret,
      calls>>

service ==
    <<documentation, sections, apiIndex, loaded, deprecations, loads, registered>>

\* A call and its outcome: the error it rejects with, or the list (search) or
\* the value (getApiReference) it resolves to.
Call(op, text, category, limit) ==
    [op |-> op, text |-> text, category |-> category, limit |-> limit]

NoCall ==
    Call("none", <<>>, "", 0)
    @@ [error |-> "none", results |-> <<>>, value |-> NullReference]

NoRequest == [tool |-> "none", text |-> <<>>, category |-> "", limit |-> 0]

\* The constructors of DocumentationService and DeprecationManager.
Init ==
    /\ documentation = <<>>
    /\ sections = <<>>
    /\ apiIndex = EmptyMap
    /\ loaded = FALSE
    /\ deprecations = EmptyMap
    /\ loads = <<>>
    /\ registered = <<>>
    /\ ret = NoCall
    /\ calls = [c \in 1..MaxCalls |-> [pc |-> "idle", request |-> NoRequest]]

\* The assignments of one parseDocumentation(text) call.
parseInto(text) ==
    \E parsed \in {parseDocumentation(sections, apiIndex, deprecations, text)} :
        /\ sections' = parsed.sections
        /\ apiIndex' = parsed.apiIndex
        /\ deprecations' = parsed.deprecations
        /\ loads' = Append(loads, text)

\* service.parseDocumentation(text), called on the service directly.
ParseDocumentation(text) ==
    /\ ret = NoCall
    /\ Len(loads) < MaxLoads
    /\ parseInto(text)
    /\ UNCHANGED <<documentation, loaded, registered, ret, calls>>

\* await service.search(query, category, limit)
Search(query, category, limit) ==
    /\ ret = NoCall
    /\ ret' = Call("search", query, category, limit)
              @@ search(sections, deprecations, query, category, limit)
              @@ [value |-> NullReference]
    /\ UNCHANGED <<service, calls>>

\* await service.getApiReference(name)
GetApiReference(name) ==
    /\ ret = NoCall
    /\ ret' = Call("getApiReference", name, "", 0)
              @@ getApiReference(sections, apiIndex, deprecations, name)
              @@ [results |-> <<>>]
    /\ UNCHANGED <<service, calls>>

\* The caller has taken the result.
Return ==
    /\ ret # NoCall
    /\ ret' = NoCall
    /\ UNCHANGED <<service, calls>>

Next ==
    \/ \E text \in Corpora : ParseDocumentation(text)
    \/ \E s \in Searches, limit \in Limits : Search(s[1], s[2], limit)
    \/ \E name \in Names : GetApiReference(name)
    \/ Return

Spec == Init /\ [][Next]_vars

(***************************************************************************)
(* The DeprecationManager, called directly                                 *)
(***************************************************************************)

\* manager.registerDeprecation(name, info)
RegisterDeprecation(name, info) ==
    /\ ret = NoCall
    /\ Len(registered) < MaxRegisters
    /\ deprecations' = registerDeprecation(deprecations, name, info)
    /\ registered' = Append(registered, [name |-> name, info |-> info])
    /\ UNCHANGED <<documentation, sections, apiIndex, loaded, loads, ret, calls>>

\* manager.isDeprecated(name)
IsDeprecated(name) ==
    /\ ret = NoCall
    /\ ret' = [op |-> "isDeprecated", text |-> name,
               deprecated |-> isDeprecated(deprecations, name)]
    /\ UNCHANGED <<service, calls>>

\* manager.getDeprecationInfo(name)
GetDeprecationInfo(name) ==
    /\ ret = NoCall
    /\ ret' = [op |-> "getDeprecationInfo", text |-> name,
               info |-> getDeprecationInfo(deprecations, name)]
    /\ UNCHANGED <<service, calls>>

\* generateWarning as a call that also writes the registry.
GenerateWarningRegistering(name, format) ==
    /\ ret = NoCall
    /\ ret' = [op |-> "generateWarning", text |-> name, format |-> format,
               warning |-> generateWarning(deprecations, name, format)]
    /\ deprecations' = registerDeprecation(deprecations, name, PossiblyDeprecated)
    /\ UNCHANGED <<documentation, sections, apiIndex, loaded, loads, registered, calls>>

\* manager.generateWarning(name, format)
GenerateWarning(name, format) ==
    /\ ret = NoCall
    /\ ret' = [op |-> "generateWarning", text |-> name, format |-> format,
               warning |-> generateWarning(deprecations, name, format)]
    /\ UNCHANGED <<service, calls>>

\* manager.checkSearchResult({ title, content })
CheckSearchResult(title, content) ==
    /\ ret = NoCall
    /\ ret' = [op |-> "checkSearchResult", title |-> title, content |-> content,
               info |-> checkSearchResult(deprecations, title, content)]
    /\ UNCHANGED <<service, calls>>

NextManager ==
    \/ \E name \in RegisterNames, info \in RegisterInfos : RegisterDeprecation(name, info)
    \/ \E name \in ManagerNames : IsDeprecated(name)
    \/ \E name \in ManagerNames : GetDeprecationInfo(name)
    \/ \E name \in ManagerNames, format \in Formats : GenerateWarning(name, format)
    \/ \E title \in ResultTitles, content \in ResultContents :
          CheckSearchResult(title, content)
    \/ Return

SpecManager == Init /\ [][NextManager]_vars

(***************************************************************************)
(* getBestPractices, called on the service                                 *)
(***************************************************************************)

\* await service.getBestPractices(topic)
GetBestPractices(topic) ==
    /\ ret = NoCall
    /\ ret' = [op |-> "getBestPractices", text |-> topic,
               results |-> getBestPractices(sections, topic)]
    /\ UNCHANGED <<service, calls>>

NextPractices ==
    \/ \E text \in PracticeCorpora : ParseDocumentation(text)
    \/ \E topic \in Topics : GetBestPractices(topic)
    \/ Return

SpecPractices == Init /\ [][NextPractices]_vars

(***************************************************************************)
(* The queries of a loaded service and the rendering of search results     *)
(***************************************************************************)

\* formatSearchResults(results, deprecationManager), given the list an
\* earlier search resolved to.
FormatSearchResults ==
    /\ ret.op = "search"
    /\ ret.error = "none"
    /\ ret' = [op |-> "formatSearchResults", text |-> ret.text, results |-> ret.results,
               output |-> formatSearchResults(ret.results, deprecations)]
    /\ UNCHANGED <<service, calls>>

NextQueries ==
    \/ \E text \in QueryCorpora : ParseDocumentation(text)
    \/ \E s \in QuerySearches : Search(s[1], s[2], MaxLimit)
    \/ FormatSearchResults
    \/ \E name \in QueryNames : GetApiReference(name)
    \/ \E topic \in QueryTopics : GetBestPractices(topic)
    \/ \E name \in QueryWarnings, format \in Formats : GenerateWarning(name, format)
    \/ Return

SpecQueries == Init /\ [][NextQueries]_vars

(***************************************************************************)
(* The CallToolRequestSchema handler of index.js                           *)
(***************************************************************************)

\* What the handler answers a request with once the documentation is loaded
\* (the switch of lines 139-154 and the catch of line 155): the outcome of
\* the tool, an error of the tool turned into an isError response.
runTool(secs, idx, deps, request) ==
    IF request.tool = "search_ember_docs"
    THEN search(secs, deps, request.text, request.category, request.limit)
         @@ [value |-> NullReference]
    ELSE IF request.tool = "get_api_reference"
    THEN getApiReference(secs, idx, deps, request.text) @@ [results |-> <<>>]
    ELSE [error |-> "Unknown tool", results |-> <<>>, value |-> NullReference]

\* A request arrives at call c: the handler runs to its first await.  With
\* loaded set, ensureLoaded resolves; otherwise loadDocumentation starts a
\* fetch of its own.  The calls are numbered in the order they arrive.
CallTool(c, request) ==
    /\ calls[c].pc = "idle"
    /\ \A d \in 1..(c - 1) : calls[d].pc # "idle"
    /\ calls' = [calls EXCEPT ![c] =
                    [pc |-> IF loaded THEN "ready" ELSE "fetching",
                     request |-> request]]
    /\ UNCHANGED <<service, ret>>

\* The fetch of call c resolves with an ok response holding text: lines
\* 64-68 run without a further suspension that another call can observe.
FetchOk(c, text) ==
    /\ calls[c].pc = "fetching"
    /\ documentation' = text
    /\ parseInto(text)
    /\ loaded' = TRUE
    /\ calls' = [calls EXCEPT ![c].pc = "ready"]
    /\ UNCHANGED <<registered, ret>>

\* A mutant: the failed load marks the service as loaded.
FetchFailMarksLoaded(c) ==
    /\ calls[c].pc = "fetching"
    /\ calls' = [calls EXCEPT ![c].pc = "done"]
    /\ ret' = Call(calls[c].request.tool, calls[c].request.text,
                   calls[c].request.category, calls[c].request.limit)
              @@ [error |-> "Failed to fetch documentation", results |-> <<>>,
                  value |-> NullReference]
    /\ loaded' = TRUE
    /\ UNCHANGED <<documentation, sections, apiIndex, deprecations, loads, registered>>

\* The fetch of call c rejects, or its response is not ok: loadDocumentation
\* rethrows and the handler answers with an isError response.
FetchFail(c) ==
    /\ calls[c].pc = "fetching"
    /\ calls' = [calls EXCEPT ![c].pc = "done"]
    /\ ret' = Call(calls[c].request.tool, calls[c].request.text,
                   calls[c].request.category, calls[c].request.limit)
              @@ [error |-> "Failed to fetch documentation", results |-> <<>>,
                  value |-> NullReference]
    /\ UNCHANGED service

\* Call c resumes behind await ensureLoaded() and answers.
RunTool(c) ==
    /\ calls[c].pc = "ready"
    /\ calls' = [calls EXCEPT ![c].pc = "done"]
    /\ ret' = Call(calls[c].request.tool, calls[c].request.text,
                   calls[c].request.category, calls[c].request.limit)
              @@ runTool(sections, apiIndex, deprecations, calls[c].request)
    /\ UNCHANGED service

NextServer ==
    \/ \E c \in 1..MaxCalls, request \in Requests : CallTool(c, request)
    \/ \E c \in 1..MaxCalls, text \in Responses : FetchOk(c, text)
    \/ \E c \in 1..MaxCalls : FetchFail(c)
    \/ \E c \in 1..MaxCalls : RunTool(c)

SpecServer == Init /\ [][NextServer]_vars

(***************************************************************************)
(* Properties of the corpus load                                           *)
(***************************************************************************)

\* C1: once the corpus has been parsed a second time, the sections, the
\* entity index and the content-derived deprecation registry hold exactly
\* what a build from the second corpus alone on a new service holds: nothing
\* of the earlier load remains and no item is there twice.
C1_ReloadRebuilds ==
    Len(loads) >= 2 =>
        [sections |-> sections, apiIndex |-> apiIndex, deprecations |-> deprecations]
        = freshParse(loads[Len(loads)])

allDone == \A c \in 1..MaxCalls : calls[c].pc = "done"

\* C2: tool calls that arrive while the first load is in flight do not load
\* again: the corpus is fetched and parsed at most once, and when every call
\* has answered the sections hold each item of the corpus once.
C2_LoadedOnce ==
    /\ Len(loads) <= 1
    /\ (allDone /\ loaded) => sections = freshParse(documentation).sections

(***************************************************************************)
(* Properties of search                                                    *)
(***************************************************************************)

\* The items the search of ret scanned.
scanned == scanItems(sections, sectionsToSearch(sections, ret.category))

searchTermsOf(query) == splitWhitespace(toLowerCase(query))

\* C3: every result of a search has a score of at least MIN_SCORE and either
\* at least two matched terms or a score of at least MIN_SCORE_SINGLE_TERM.
C3_ResultsAdmitted ==
    ret.op = "search" =>
        \A i \in 1..Len(ret.results) :
            /\ ret.results[i].score >= SEARCH_CONFIG.MIN_SCORE
            /\ \/ ret.results[i].matchedTerms >= 2
               \/ ret.results[i].score >= SEARCH_CONFIG.MIN_SCORE_SINGLE_TERM

\* A search that the limit did not cut, with a result admitted on one matched
\* term, left out an item that holds a term of the query.
C3_Witness ==
    /\ ret.op = "search"
    /\ ret.error = "none"
    /\ Len(ret.results) < ret.limit
    /\ \E i \in 1..Len(ret.results) : ret.results[i].matchedTerms = 1
    /\ \E k \in 1..Len(scanned) :
          /\ \A i \in 1..Len(ret.results) : ret.results[i].scanIndex # k
          /\ \E t \in Range(searchTermsOf(ret.text)) :
                includes(toLowerCase(scanned[k].content), t)

\* C4: the results are in the order of non-increasing score, and results of
\* equal score are in the order the scan of the corpus met them.
C4_OrderedByScore ==
    ret.op = "search" =>
        \A i, j \in 1..Len(ret.results) :
            i < j =>
                \/ ret.results[i].score > ret.results[j].score
                \/ /\ ret.results[i].score = ret.results[j].score
                   /\ ret.results[i].scanIndex < ret.results[j].scanIndex

\* The sort moved a result ahead of one the scan met earlier, and two of the
\* results have the same score.
C4_Witness ==
    /\ ret.op = "search"
    /\ \E i, j \in 1..Len(ret.results) :
          i < j /\ ret.results[i].scanIndex > ret.results[j].scanIndex
    /\ \E i, j \in 1..Len(ret.results) :
          i < j /\ ret.results[i].score = ret.results[j].score

\* The places of the item the scan met at scanIndex among results.
placesOf(results, scanIndex) ==
    {i \in 1..Len(results) : results[i].scanIndex = scanIndex}

\* The item the scan met at a is before every place of the one met at b.
ranksAbove(results, a, b) ==
    \A j \in placesOf(results, b) : \E i \in placesOf(results, a) : i < j

\* Items a and b hold every term, each as often in a as in b.
sameWords(a, b, terms) ==
    \A k \in 1..Len(terms) :
        /\ matchCount(toLowerCase(a.content), terms[k]) > 0
        /\ matchCount(toLowerCase(a.content), terms[k])
           = matchCount(toLowerCase(b.content), terms[k])

\* The first occurrences of the terms in the item are a proximity threshold
\* or more apart.
scattered(item, terms) ==
    MaxOf({indexOf(toLowerCase(item.content), terms[k]) : k \in 1..Len(terms)})
    - MinOf({indexOf(toLowerCase(item.content), terms[k]) : k \in 1..Len(terms)})
    >= SEARCH_CONFIG.PROXIMITY_THRESHOLD

\* How many of the terms the derived title of the item holds.
titleWords(item, terms) ==
    Cardinality({k \in 1..Len(terms) :
                    includes(toLowerCase(extractTitle(item.content)), terms[k])})

\* Item a holds the whole query, item b the same words scattered.
adjacentAndScattered(a, b, queryLower, terms) ==
    /\ Len(terms) >= 2
    /\ includes(toLowerCase(a.content), queryLower)
    /\ ~includes(toLowerCase(b.content), queryLower)
    /\ sameWords(a, b, terms)
    /\ scattered(b, terms)

C6_SearchNeverThrows == ret.op = "search" => ret.error = "none"

(***************************************************************************)
(* Properties of the entity index and getApiReference                      *)
(***************************************************************************)

\* C7: getApiReference ignores letter case: a name that differs from the one
\* asked for only in case gives the same outcome.
C7_CaseInsensitive ==
    ret.op = "getApiReference" =>
        \A name \in Names :
            toLowerCase(name) = toLowerCase(ret.text) =>
                getApiReference(sections, apiIndex, deprecations, name)
                = [error |-> ret.error, value |-> ret.value]

\* A name in capitals found a record whose name is spelled otherwise.
C7_Witness ==
    /\ ret.op = "getApiReference"
    /\ ret.value.found
    /\ \A k \in 1..Len(ret.text) : ~IsLower(ret.text[k])
    /\ \E k \in 1..Len(ret.text) : IsUpper(ret.text[k])
    /\ ret.value.name # ret.text

\* The documents the items of the api-docs section parse to.
parsedDocs ==
    [i \in 1..Len(sectionItems(sections, API_DOCS)) |->
        parseJsonPortion(sectionItems(sections, API_DOCS)[i].content)]

\* The keys lines 179-190 set for an entry.
keysOf(e) ==
    {toLowerCase(e.name)}
    \cup (IF e.module # Undefined /\ e.module # <<>>
          THEN {toLowerCase(e.module)} ELSE {})
    \cup (IF includes(e.name, <<".">>)
          THEN {toLowerCase(lastSegment(e.name))} ELSE {})

\* The api-docs section holds one item, a record with a name and a module.
oneRecord ==
    /\ Len(parsedDocs) = 1
    /\ hasEntry(parsedDocs[1])
    /\ apiEntry(parsedDocs[1]).module # Undefined
    /\ apiEntry(parsedDocs[1]).module # <<>>

\* C8: with one record of a name and a module in the api-docs section, the
\* lookup by the name, the lookup by the module path and, for a name with a
\* ".", the lookup by its last dotted segment resolve to that record.
C8_AllKeysResolve ==
    (ret.op = "getApiReference" /\ oneRecord
     /\ toLowerCase(ret.text) \in keysOf(apiEntry(parsedDocs[1])))
    => /\ ret.error = "none"
       /\ ret.value = referenceFromIndex(deprecations, apiEntry(parsedDocs[1]))

\* The lookup by the last segment of a dotted name resolved to the record.
C8_Witness ==
    /\ ret.op = "getApiReference"
    /\ oneRecord
    /\ toLowerCase(ret.text) = toLowerCase(lastSegment(apiEntry(parsedDocs[1]).name))
    /\ toLowerCase(ret.text) # toLowerCase(apiEntry(parsedDocs[1]).name)
    /\ ret.value.found
    /\ ret.value.name = apiEntry(parsedDocs[1]).name

\* Every key that is the lowercase name of a record of docs holds in idx a
\* record of that lowercase name.
nameKeysHoldTheirRecord(docs, idx) ==
    \A i \in 1..Len(docs) :
        hasEntry(docs[i]) =>
            /\ toLowerCase(entryName(docs[i])) \in DOMAIN idx
            /\ toLowerCase(idx[toLowerCase(entryName(docs[i]))].name)
               = toLowerCase(entryName(docs[i]))

\* C9 as stated: each key that is the lowercase name of a parsed record holds
\* a record whose lowercase name is the key.
C9_NameKeyHoldsItsRecord == nameKeysHoldTheirRecord(parsedDocs, apiIndex)

\* The keys each document of docs sets, none for a document without an entry.
keysPerDoc(docs) ==
    [i \in 1..Len(docs) |->
        IF hasEntry(docs[i]) THEN keysOf(apiEntry(docs[i])) ELSE {}]

\* Every key of idx holds the record of the last document that sets it, and
\* every key a document sets is in idx.
lastWriterHolds(docs, keys, idx) ==
    /\ \A k \in DOMAIN idx :
          /\ \E i \in 1..Len(docs) : k \in keys[i]
          /\ idx[k] = apiEntry(docs[MaxOf({i \in 1..Len(docs) : k \in keys[i]})])
    /\ \A i \in 1..Len(docs) : keys[i] \subseteq DOMAIN idx

\* C9 amended: each key of the index holds the record of the last item of the
\* api-docs section that has the key as its lowercase name, module or last
\* dotted segment, and each such key is in the index.
C9_LastWriterHoldsKey ==
    Let(parsedDocs, LAMBDA docs : lastWriterHolds(docs, keysPerDoc(docs), apiIndex))

\* The lowercase name of a record is a key that holds a record of another
\* name.
C9_Witness ==
    /\ loads # <<>>
    /\ ~nameKeysHoldTheirRecord(parsedDocs, apiIndex)
    /\ \A i \in 1..Len(parsedDocs) :
          hasEntry(parsedDocs[i]) =>
              toLowerCase(entryName(parsedDocs[i])) \in DOMAIN apiIndex

\* The document has the data, attributes and name (or shortname) members.
wellFormed(doc) ==
    /\ doc # SyntaxError
    /\ doc.hasAttributes
    /\ \/ doc.name \notin {Undefined, <<>>}
       \/ doc.shortname \notin {Undefined, <<>>}

\* The keys of idx come from well-formed documents of docs only, and every
\* well-formed document has the key of its name in idx.
malformedSkipped(docs, idx) ==
    /\ \A k \in DOMAIN idx :
          \E i \in 1..Len(docs) :
              wellFormed(docs[i]) /\ k \in keysOf(apiEntry(docs[i]))
    /\ \A i \in 1..Len(docs) :
          wellFormed(docs[i]) => toLowerCase(entryName(docs[i])) \in DOMAIN idx

\* C11: an api-docs item whose brace-bounded text does not parse, or lacks
\* the data, attributes and name shape, adds no key to the index, and every
\* well-formed item before and after it is indexed.
C11_MalformedSkipped == malformedSkipped(parsedDocs, apiIndex)

\* Documents i < j < k of docs: j malformed in the given way between two
\* well-formed ones.
malformedBetween(docs, syntaxError) ==
    \E i, j, k \in 1..Len(docs) :
        /\ i < j /\ j < k
        /\ wellFormed(docs[i]) /\ wellFormed(docs[k])
        /\ ~wellFormed(docs[j])
        /\ (docs[j] = SyntaxError) = syntaxError

\* The section holds text that does not parse and a document without the
\* shape, each between well-formed items, and four keys or more are indexed.
C11_Witness ==
    /\ malformedBetween(parsedDocs, TRUE)
    /\ malformedBetween(parsedDocs, FALSE)
    /\ Cardinality(DOMAIN apiIndex) >= 4

\* C10 as stated: getApiReference returns no record for a name whose
\* lowercase form is no key of the index.
C10_ExactLookup ==
    (ret.op = "getApiReference" /\ toLowerCase(ret.text) \notin DOMAIN apiIndex)
    => ~ret.value.found

\* C10 amended: getApiReference returns no record for a name whose lowercase
\* form is no key of the index and is in the lowercase content of no item of
\* the api-docs section.
C10_NoKeyNoContent ==
    (/\ ret.op = "getApiReference"
     /\ toLowerCase(ret.text) \notin DOMAIN apiIndex
     /\ \A i \in 1..Len(sectionItems(sections, API_DOCS)) :
           ~includes(toLowerCase(sectionItems(sections, API_DOCS)[i].content),
                     toLowerCase(ret.text)))
    => ~ret.value.found

\* The search of the fallback found an item with a link for a name that no
\* key and no content holds, and getApiReference returned no record.
C10_Witness ==
    /\ ret.op = "getApiReference"
    /\ ret.error = "none"
    /\ ~ret.value.found
    /\ toLowerCase(ret.text) \notin DOMAIN apiIndex
    /\ Len(search(sections, deprecations, ret.text, "api", 1).results) > 0
    /\ search(sections, deprecations, ret.text, "api", 1).results[1].apiLink # NoLink

(***************************************************************************)
(* Properties of the DeprecationManager                                    *)
(***************************************************************************)

\* The calls of history that gave a record under a letter-case variant of
\* name.
registeredUnder(history, name) ==
    {i \in 1..Len(history) :
        /\ history[i].info # NullInfo
        /\ toLowerCase(history[i].name) = toLowerCase(name)}

\* The record the two tiers hold for name after history, given the calls of
\* history that count for name.
twoTier(history, under, name) ==
    IF under # {} THEN history[MaxOf(under)].info
    ELSE getOr(knownDeprecations, toLowerCase(name), NullInfo)

\* C12 as stated: getDeprecationInfo(name) returns the record registered last
\* under a letter-case variant of name, also when the seeded tier has the
\* name; the seeded entry when nothing was registered, and otherwise none.
C12_LastRegisteredWins ==
    ret.op = "getDeprecationInfo" =>
        ret.info = twoTier(registered, registeredUnder(registered, ret.text), ret.text)

\* C12 amended: the same for a name that is not empty; under the empty name
\* nothing is registered and the lookup of the empty name returns none.
C12_LastRegisteredWinsNamed ==
    ret.op = "getDeprecationInfo" =>
        ret.info = IF ret.text = <<>> THEN NullInfo
                   ELSE twoTier(registered, registeredUnder(registered, ret.text),
                                ret.text)

\* Two records were registered under a seeded name, and the lookup under
\* another spelling returned the second.
C12_Witness ==
    /\ ret.op = "getDeprecationInfo"
    /\ registeredUnder(registered, ret.text) = {1, 2}
    /\ registered[1].info # registered[2].info
    /\ ret.text # registered[2].name
    /\ toLowerCase(ret.text) \in DOMAIN knownDeprecations
    /\ ret.info = registered[2].info

\* The name is a key of the content-derived tier or of the seeded tier.
inEitherTier(name) ==
    \/ toLowerCase(name) \in DOMAIN deprecations
    \/ toLowerCase(name) \in DOMAIN knownDeprecations

\* The name is a key of the seeded tier only.
seededOnly(name) ==
    /\ toLowerCase(name) \notin DOMAIN deprecations
    /\ toLowerCase(name) \in DOMAIN knownDeprecations

\* C13: generateWarning(name, format) returns the empty string exactly when
\* name is deprecated in neither tier, so every format gives a deprecated
\* name a text that is not empty; the short form of a seeded entry has fewer
\* than 100 characters.
C13_WarningIffDeprecated ==
    ret.op = "generateWarning" =>
        /\ (ret.warning = <<>>) <=> ~inEitherTier(ret.text)
        /\ (ret.format = "short" /\ seededOnly(ret.text)) => Len(ret.warning) < 100

\* The short form was asked for a seeded name that nothing was registered
\* under, after a registration under another name.
C13_Witness ==
    /\ ret.op = "generateWarning"
    /\ ret.format = "short"
    /\ seededOnly(ret.text)
    /\ DOMAIN deprecations # {}
    /\ ret.warning # <<>>

(***************************************************************************)
(* Properties of getBestPractices                                          *)
(***************************************************************************)

\* The documents of the pool that pass the match and the score thresholds.
candidates(pool, topicTerms) ==
    {i \in 1..Len(pool) : scoreOf(pool[i].content, topicTerms) >= SEARCH_CONFIG.BP_MIN_THRESHOLD}

\* The derived title of document i, as titles are compared.
titleKey(pool, i) == toLowerCase(extractTitle(pool[i].content))

\* The candidates whose title another candidate has too.
sharedTitle(pool, cands) ==
    {i \in cands : \E j \in cands : j # i /\ titleKey(pool, i) = titleKey(pool, j)}

\* The entries of the result list with a title.
entriesTitled(results, key) == {k \in 1..Len(results) : toLowerCase(results[k].title) = key}

\* The candidate with a title that the scan visits first.
earliestTitled(pool, cands, key) == MinOf({j \in cands : titleKey(pool, j) = key})

\* The number of titles of the candidates.
titleCount(pool, cands) == Cardinality({titleKey(pool, j) : j \in cands})

exactlyOneEarliest(pool, cands, results) ==
    \A i \in sharedTitle(pool, cands) :
        /\ Cardinality(entriesTitled(results, titleKey(pool, i))) = 1
        /\ \A k \in entriesTitled(results, titleKey(pool, i)) :
               results[k].scanIndex = earliestTitled(pool, cands, titleKey(pool, i))

\* C14: when two documents that pass the match and the score
\* thresholds share their derived title, compared case-insensitively, the
\* list getBestPractices returns has exactly one entry with that title, the
\* one built from the document scanned first.
C14_ExactlyOneEarliest ==
    ret.op = "getBestPractices" =>
        Let(allSections(sections), LAMBDA pool :
            exactlyOneEarliest(pool, candidates(pool, topicTermsOf(toLowerCase(ret.text))),
                               ret.results))

atMostOneEarliest(pool, cands, results, topicLower) ==
    \A i \in sharedTitle(pool, cands) :
        Let(entriesTitled(results, titleKey(pool, i)), LAMBDA entries :
        Let(earliestTitled(pool, cands, titleKey(pool, i)), LAMBDA first :
            /\ Cardinality(entries) <= 1
            /\ \A k \in entries : results[k].scanIndex = first
            /\ IF extractBestPracticeSections(pool[first].content, topicLower).content = <<>>
               THEN entries = {}
               ELSE titleCount(pool, cands) <= SEARCH_CONFIG.MAX_BEST_PRACTICES
                    => Cardinality(entries) = 1))

\* What the loop does give: the list has at most one entry with a shared
\* title, and an entry with it is built from the document scanned first;
\* there is exactly one when the focused content extracted from that first
\* document is not empty and the candidates have no more titles than the
\* result cap, and none when that content is empty, because the title is
\* added to seenTitles before the content is tested.
atMostOneEarliestHolds ==
    ret.op = "getBestPractices" =>
        Let(allSections(sections), LAMBDA pool :
            atMostOneEarliest(pool, candidates(pool, topicTermsOf(toLowerCase(ret.text))),
                              ret.results, toLowerCase(ret.text)))

\* Two candidates share a title and the list holds the entry of the first.
sharedTitleKept ==
    /\ ret.op = "getBestPractices"
    /\ Let(allSections(sections), LAMBDA pool :
       Let(candidates(pool, topicTermsOf(toLowerCase(ret.text))), LAMBDA cands :
           \E i \in sharedTitle(pool, cands) :
               \E k \in entriesTitled(ret.results, titleKey(pool, i)) :
                   /\ ret.results[k].scanIndex = earliestTitled(pool, cands, titleKey(pool, i))
                   /\ ret.results[k].scanIndex < i))

\* The places in allSections of the documents the entries were built from.
scanIndexes(results) == {results[k].scanIndex : k \in 1..Len(results)}

\* A topic of one word whose singular and plural differ.
isInflected(topic) ==
    /\ topicTermsOf(topic) = <<topic>>
    /\ singular(topic) # plural(topic)
    /\ topic \in {singular(topic), plural(topic)}

\* The document holds the singular or the plural, and no line of it opens a
\* code block or a raw record.
holdsForm(content, s, p) ==
    /\ includes(toLowerCase(content), s) \/ includes(toLowerCase(content), p)
    /\ \A line \in Range(split(content, "\n")) :
           ~startsWith(trim(line), FENCE) /\ ~startsWith(trim(line), <<"{">>)

\* Document i is the first of its title, and the documents that pass the
\* thresholds have no more titles than the result cap.
firstOfTitle(pool, i, topicTerms) ==
    /\ \A j \in 1..(i - 1) : titleKey(pool, j) # titleKey(pool, i)
    /\ titleCount(pool, candidates(pool, topicTerms)) <= SEARCH_CONFIG.MAX_BEST_PRACTICES

roundTrip(secs, pool, topic, results, s, p) ==
    \A i \in 1..Len(pool) :
        holdsForm(pool[i].content, s, p) =>
            /\ i \in scanIndexes(getBestPractices(secs, s))
                     \cup scanIndexes(getBestPractices(secs, p))
               => i \in scanIndexes(results)
            /\ firstOfTitle(pool, i, <<topic>>) => i \in scanIndexes(results)

headerLines(lines) == {h \in 1..Len(lines) : IsSectionHeader(lines[h])}

\* The lines inside the section that the header at line h opens: up to the
\* next header or the end of the text.
insideSection(lines, h) ==
    (h + 1)..(MinOr({g \in headerLines(lines) : g > h}, Len(lines) + 1) - 1)

\* The separator lines inside that section that come after a content line.
separatorsInside(lines, h) ==
    {l \in insideSection(lines, h) :
        /\ IsSeparator(lines[l])
        /\ \E c \in insideSection(lines, h) : c < l /\ ~IsSeparator(lines[c])}

onePlusSeparators(lines, secs) ==
    \A h \in headerLines(lines) :
        Len(sectionItems(secs, trim(SubSeq(lines[h], 3, Len(lines[h])))))
            = 1 + Cardinality(separatorsInside(lines, h))

\* C16: after one corpus is parsed, every section has one item more than
\* the corpus has separator lines inside that section, a separator before
\* any content of the section not counted.
C16_ItemsPerSection ==
    Len(loads) = 1 => onePlusSeparators(split(loads[1], "\n"), sections)

(***************************************************************************)
(* Properties of the queries and of formatSearchResults                    *)
(***************************************************************************)

\* The text after "## n. title" on a title line.
markerOf(line, result, index) ==
    SubSeq(line, Len(decimal(index)) + Len(result.title) + 6, Len(line))

\* C18: every search result that carries a resolved deprecation record (a
\* record whose status is not possibly-deprecated) is rendered by
\* formatSearchResults with a short deprecation marker that is not empty on
\* its title line and an inline warning that is not empty below it.
C18_ResolvedRecordIsMarked ==
    ret.op = "formatSearchResults" =>
        \A k \in 1..Len(ret.results) :
            (/\ ret.results[k].deprecationInfo # NullInfo
             /\ ret.results[k].deprecationInfo.status # "possibly-deprecated")
            => /\ trim(markerOf(ret.output[k].title, ret.results[k], k)) # <<>>
               /\ ret.output[k].inline \notin {Undefined, <<>>}

\* The operations that answer a query.
QueryOps == {"search", "getApiReference", "getBestPractices", "generateWarning"}

\* C17: a step in which search, getApiReference, getBestPractices or
\* generateWarning is called leaves the sections, the entity index and the
\* deprecation registry as they were, whatever was called before it, and
\* the registry changes only in a step that parses a corpus.
C17_QueriesReadOnly ==
    [][/\ ret = NoCall /\ ret'.op \in QueryOps
          => UNCHANGED <<sections, apiIndex, deprecations>>
       /\ deprecations' # deprecations => Len(loads') = Len(loads) + 1]_vars

\* A query of each kind is answered on a service whose load has filled the
\* sections, the entity index and the registry.
C17_Witness ==
    /\ ret.op = "generateWarning"
    /\ ret.warning # <<>>
    /\ Len(loads) = MaxLoads
    /\ sections # <<>>
    /\ DOMAIN apiIndex # {}
    /\ DOMAIN deprecations # {}

\* The category names of the results of a list.
categoriesOf(results) == {results[k].category : k \in 1..Len(results)}

\* C19: a search with category 'api' returns results of the api-docs
\* section only, 'community' of community-bloggers only, 'guides' of the
\* other sections only, and a category that is none of these nor 'all'
\* returns the empty list.
C19_CategoryFilter ==
    ret.op = "search" /\ ret.error = "none" =>
        /\ ret.category = "api" => categoriesOf(ret.results) \subseteq {"API Documentation"}
        /\ ret.category = "community"
           => categoriesOf(ret.results) \subseteq {"Community Articles"}
        /\ ret.category = "guides"
           => categoriesOf(ret.results) \subseteq {"Guides & Tutorials"}
        /\ ret.category \notin {"all", "api", "guides", "community"} => ret.results = <<>>

\* A search of one category has results while the same search over all
\* sections has results of another category too.
C19_Witness ==
    /\ ret.op = "search"
    /\ ret.error = "none"
    /\ ret.category \in {"api", "guides", "community"}
    /\ ret.results # <<>>
    /\ categoriesOf(search(sections, deprecations, ret.text, "all", MaxLimit).results)
       \ categoriesOf(ret.results) # {}

\* The record of a name that is in either tier: the registered one first.
recordOf(name) ==
    IF toLowerCase(name) \in DOMAIN deprecations
    THEN deprecations[toLowerCase(name)]
    ELSE knownDeprecations[toLowerCase(name)]

\* The content holds one of the words deprecated, legacy or no longer
\* recommended.
holdsPossiblyKeyword(content) ==
    /\ content \notin {Undefined, <<>>}
    /\ \E w \in {<<"d","e","p","r","e","c","a","t","e","d">>, <<"l","e","g","a","c","y">>, <<"n","o"," ","l","o","n","g","e","r"," ","r","e","c","o","m","m","e","n","d","e","d">>} : TestWord(content, w)

threeWays(title, content, info) ==
    IF titleApiName(title) # Undefined /\ inEitherTier(titleApiName(title))
    THEN info = recordOf(titleApiName(title)) /\ info.status = "deprecated"
    ELSE IF holdsPossiblyKeyword(content) THEN info = PossiblyDeprecated
    ELSE info = NullInfo

\* C20 (as stated): checkSearchResult returns the full record, of status
\* deprecated, when the identifier extracted from the title is deprecated in
\* either tier; otherwise the marker of status possibly-deprecated when the
\* content holds a deprecation keyword; otherwise none.
C20_ThreeWays ==
    ret.op = "checkSearchResult" => threeWays(ret.title, ret.content, ret.info)

\* C20 (amended): the three ways are those of a result whose title is not
\* empty; a result without a title gets none, whatever its content holds.
C20_ThreeWaysTitled ==
    ret.op = "checkSearchResult" =>
        IF ret.title = <<>> THEN ret.info = NullInfo
        ELSE threeWays(ret.title, ret.content, ret.info)

\* The title names a registered identifier and the content holds a keyword:
\* the record is returned, not the marker.
C20_Witness ==
    /\ ret.op = "checkSearchResult"
    /\ ret.title # <<>>
    /\ toLowerCase(titleApiName(ret.title)) \in DOMAIN deprecations
    /\ holdsPossiblyKeyword(ret.content)
    /\ ret.info = deprecations[toLowerCase(titleApiName(ret.title))]

(***************************************************************************)
(* Properties of the score of search                                       *)
(***************************************************************************)

\* Every term of the query occurs in the lowercased content.
everyTermOccurs(content, terms) ==
    \A k \in 1..Len(terms) : matchCount(content, terms[k]) > 0

\* What the terms add to the score: the matches of each term that occurs,
\* and the title bonus when the title holds it.
RECURSIVE termsScore(_, _, _)
termsScore(content, titleLower, terms) ==
    IF Len(terms) = 0 THEN 0
    ELSE (IF matchCount(content, terms[1]) > 0
          THEN matchCount(content, terms[1]) * SEARCH_CONFIG.TERM_MATCH_WEIGHT
               + (IF includes(titleLower, terms[1]) THEN SEARCH_CONFIG.TITLE_MATCH_BONUS
                  ELSE 0)
          ELSE 0)
         + termsScore(content, titleLower, Tail(terms))

\* The score of an item before the all-terms and the proximity bonuses.
scoreBeforeBonuses(item, queryLower, terms) ==
    (IF includes(toLowerCase(item.content), queryLower)
     THEN SEARCH_CONFIG.EXACT_PHRASE_BONUS ELSE 0)
    + termsScore(toLowerCase(item.content), toLowerCase(extractTitle(item.content)), terms)

includesAllTermsBonus(scan, results, queryLower, terms) ==
    \A i \in 1..Len(results) :
        everyTermOccurs(toLowerCase(scan[results[i].scanIndex].content), terms)
        => results[i].score
           >= scoreBeforeBonuses(scan[results[i].scanIndex], queryLower, terms)
              + SEARCH_CONFIG.ALL_TERMS_BONUS

\* C21: the score of every result in whose item every term of the query
\* occurs includes ALL_TERMS_BONUS on top of the phrase bonus and of what
\* the terms add, also when the whole query occurs in the item as a phrase.
C21_AllTermsBonus ==
    ret.op = "search" /\ ret.error = "none" /\ searchTermsOf(ret.text) # <<>> =>
        includesAllTermsBonus(scanned, ret.results, toLowerCase(ret.text),
                              searchTermsOf(ret.text))

\* C22: the matched-term count a result reports is at most the total-term
\* count it reports.
C22_MatchedAtMostTotal ==
    ret.op = "search" =>
        \A i \in 1..Len(ret.results) :
            ret.results[i].matchedTerms <= ret.results[i].totalTerms

\* The offsets search records for the terms of a query: the first offset
\* of each term that occurs, one entry per term.
RECURSIVE recordedPositions(_, _)
recordedPositions(content, terms) ==
    IF Len(terms) = 0 THEN <<>>
    ELSE (IF matchCount(content, terms[1]) > 0 /\ indexOf(content, terms[1]) # -1
          THEN <<indexOf(content, terms[1])>> ELSE <<>>)
         \o recordedPositions(content, Tail(terms))

\* Latest minus earliest of the recorded offsets.
spanOf(positions) ==
    MaxOf({positions[k] : k \in 1..Len(positions)})
    - MinOf({positions[k] : k \in 1..Len(positions)})

\* Two or more offsets were recorded and their span is below the threshold.
termsAreClose(positions) ==
    Len(positions) >= 2 /\ spanOf(positions) < SEARCH_CONFIG.PROXIMITY_THRESHOLD

closeTermsOf(scan, result, terms) ==
    termsAreClose(recordedPositions(toLowerCase(scan[result.scanIndex].content), terms))

\* The bonus the claim names, for the offsets of a result's item.
bonusForSpan(positions) ==
    (SEARCH_CONFIG.PROXIMITY_THRESHOLD - spanOf(positions))
    \div SEARCH_CONFIG.PROXIMITY_BONUS_DIVISOR

includesProximityBonus(scan, result, queryLower, terms) ==
    result.score
    >= scoreBeforeBonuses(scan[result.scanIndex], queryLower, terms)
       + bonusForSpan(recordedPositions(toLowerCase(scan[result.scanIndex].content), terms))

\* The score of a result that got the all-terms bonus, with the proximity
\* bonus.
scoreWithBothBonuses(scan, result, queryLower, terms) ==
    scoreBeforeBonuses(scan[result.scanIndex], queryLower, terms)
    + SEARCH_CONFIG.ALL_TERMS_BONUS
    + bonusForSpan(recordedPositions(toLowerCase(scan[result.scanIndex].content), terms))

\* The spans the bonus is evaluated on: up to past the threshold.
MaxSpan == SEARCH_CONFIG.PROXIMITY_THRESHOLD + SEARCH_CONFIG.PROXIMITY_BONUS_DIVISOR

\* The bonus is never negative and never grows as the span grows.
bonusNeverGrows ==
    \A s \in 0..MaxSpan :
        proximityBonus(s) >= 0 /\ proximityBonus(s) >= proximityBonus(s + 1)

\* C23 (as stated): the score of every result whose item has two or more
\* recorded term positions with a span below PROXIMITY_THRESHOLD includes
\* floor((PROXIMITY_THRESHOLD - span) / PROXIMITY_BONUS_DIVISOR), and the
\* bonus is never negative and never grows as the span grows.
C23_ProximityBonus ==
    ret.op = "search" /\ ret.error = "none" =>
        /\ bonusNeverGrows
        /\ \A i \in 1..Len(ret.results) :
               closeTermsOf(scanned, ret.results[i], searchTermsOf(ret.text))
               => includesProximityBonus(scanned, ret.results[i], toLowerCase(ret.text),
                                         searchTermsOf(ret.text))

\* C23 (amended): the score of every result that got the all-terms bonus
\* (its matched-term count equals the number of terms of the query) and
\* whose item has two or more recorded term positions with a span below
\* PROXIMITY_THRESHOLD is the score before the bonuses plus ALL_TERMS_BONUS
\* plus floor((PROXIMITY_THRESHOLD - span) / PROXIMITY_BONUS_DIVISOR); the
\* bonus is never negative and never grows as the span grows.
C23_ProximityWithAllTerms ==
    ret.op = "search" /\ ret.error = "none" =>
        /\ bonusNeverGrows
        /\ \A i \in 1..Len(ret.results) :
               /\ ret.results[i].matchedTerms = ret.results[i].totalTerms
               /\ closeTermsOf(scanned, ret.results[i], searchTermsOf(ret.text))
               => ret.results[i].score
                  = scoreWithBothBonuses(scanned, ret.results[i], toLowerCase(ret.text),
                                         searchTermsOf(ret.text))

\* A search returned a result that got the all-terms bonus and whose terms
\* are close enough for a positive proximity bonus.
C23_Witness ==
    /\ ret.op = "search" /\ ret.error = "none"
    /\ \E i \in 1..Len(ret.results) :
           /\ ret.results[i].matchedTerms = ret.results[i].totalTerms
           /\ closeTermsOf(scanned, ret.results[i], searchTermsOf(ret.text))
           /\ bonusForSpan(recordedPositions(
                  toLowerCase(scanned[ret.results[i].scanIndex].content),
                  searchTermsOf(ret.text))) > 0

(***************************************************************************)
(* extractExcerpt                                                          *)
(***************************************************************************)

\* The distance of a cluster of term positions.
CLUSTER_DISTANCE == 500

\* termPositions.sort((a, b) => a.pos - b.pos): a stable insertion by pos.
RECURSIVE insertByPos(_, _)
insertByPos(sorted, hit) ==
    IF Len(sorted) = 0 THEN <<hit>>
    ELSE IF sorted[Len(sorted)].pos <= hit.pos THEN Append(sorted, hit)
    ELSE Append(insertByPos(SubSeq(sorted, 1, Len(sorted) - 1), hit), sorted[Len(sorted)])

RECURSIVE sortByPos(_)
sortByPos(termPositions) ==
    IF Len(termPositions) = 0 THEN <<>>
    ELSE insertByPos(sortByPos(SubSeq(termPositions, 1, Len(termPositions) - 1)),
                     termPositions[Len(termPositions)])

\* The inner loop: 1 and the hits after i, counted until the first that is
\* CLUSTER_DISTANCE or more after hit i.
RECURSIVE clusterSize(_, _, _)
clusterSize(sorted, i, j) ==
    IF j > Len(sorted) THEN 1
    ELSE IF sorted[j].pos - sorted[i].pos < CLUSTER_DISTANCE
    THEN 1 + clusterSize(sorted, i, j + 1)
    ELSE 1

\* The outer loop from hit i on, best being [start, density].
RECURSIVE lookForClusters(_, _, _)
lookForClusters(sorted, i, best) ==
    IF i > Len(sorted) THEN best
    ELSE lookForClusters(sorted, i + 1,
             IF clusterSize(sorted, i, i + 1) > best.density
             THEN [start |-> sorted[i].pos, density |-> clusterSize(sorted, i, i + 1)]
             ELSE best)

\* A mutant: the first hit, whatever the clusters.
bestStartFirstHit(sorted) == sorted[1].pos

bestStart(sorted) ==
    lookForClusters(sorted, 1, [start |-> sorted[1].pos, density |-> 1]).start

\* .replace(/\{[\s\S]*?"data"[\s\S]*?\}/g, '[API Data]')
RECURSIVE replaceApiData(_)
replaceApiData(s) ==
    Let(indexOf(s, <<"{">>), LAMBDA open :
        IF open = -1 THEN s
        ELSE Let(indexOfFrom(s, <<"\"","d","a","t","a","\"">>, open + 1), LAMBDA data :
            IF data = -1 THEN s
            ELSE Let(indexOfFrom(s, <<"}">>, data + 6), LAMBDA close :
                IF close = -1 THEN s
                ELSE SubSeq(s, 1, open) \o <<"[","A","P","I"," ","D","a","t","a","]">>
                     \o replaceApiData(SubSeq(s, close + 2, Len(s))))))

\* .replace(/```[\s\S]*?```/g, '[Code Example]')
RECURSIVE replaceCodeExamples(_)
replaceCodeExamples(s) ==
    Let(indexOf(s, FENCE), LAMBDA open :
        IF open = -1 THEN s
        ELSE Let(indexOfFrom(s, FENCE, open + 3), LAMBDA close :
            IF close = -1 THEN s
            ELSE SubSeq(s, 1, open) \o <<"[","C","o","d","e"," ","E","x","a","m","p","l","e","]">>
                 \o replaceCodeExamples(SubSeq(s, close + 4, Len(s)))))

\* .replace(/\n{3,}/g, '\n\n')
RECURSIVE collapseNewlines(_)
collapseNewlines(s) ==
    Let(indexOf(s, <<"\n", "\n", "\n">>), LAMBDA i :
        IF i = -1 THEN s
        ELSE collapseNewlines(SubSeq(s, 1, i) \o SubSeq(s, i + 2, Len(s))))

\* Lines 432-436: drop the cut word at the start.
startAtWord(excerpt, contextStart) ==
    IF contextStart > 0
    THEN <<".",".",".">> \o (IF indexOf(excerpt, <<" ">>) > 0 /\ indexOf(excerpt, <<" ">>) < 50
                   THEN substring(excerpt, indexOf(excerpt, <<" ">>) + 1, Len(excerpt))
                   ELSE excerpt)
    ELSE excerpt

\* Lines 438-444: drop the cut word at the end.
endAtWord(excerpt, contextEnd, length) ==
    IF contextEnd < length
    THEN (IF lastIndexOf(excerpt, <<" ">>) > Len(excerpt) - 50
          THEN substring(excerpt, 0, lastIndexOf(excerpt, <<" ">>))
          ELSE excerpt) \o <<".",".",".">>
    ELSE excerpt

\* The excerpt of the window anchored on start.
excerptAround(content, start) ==
    Let(Max(0, start - 150), LAMBDA contextStart :
    Let(Min(Len(content), start + 400), LAMBDA contextEnd :
        trim(collapseNewlines(replaceCodeExamples(replaceApiData(
            endAtWord(startAtWord(substring(content, contextStart, contextEnd),
                                  contextStart),
                      contextEnd, Len(content))))))))

\* The fallback: the first term that occurs in the content.
RECURSIVE excerptOfTerm(_, _, _)
excerptOfTerm(content, contentLower, terms) ==
    IF Len(terms) = 0 THEN Undefined
    ELSE Let(indexOf(contentLower, terms[1]), LAMBDA termIndex :
        IF termIndex = -1 THEN excerptOfTerm(content, contentLower, Tail(terms))
        ELSE trim(replaceCodeExamples(replaceApiData(
                 (IF Max(0, termIndex - 100) > 0 THEN <<".",".",".">> ELSE <<>>)
                 \o substring(content, Max(0, termIndex - 100),
                              Min(Len(content), termIndex + 300))
                 \o (IF Min(Len(content), termIndex + 300) < Len(content)
                     THEN <<".",".",".">> ELSE <<>>)))))

\* The final fallback: the first line that reads as a paragraph.
RECURSIVE firstParagraph(_)
firstParagraph(lines) ==
    IF Len(lines) = 0 THEN <<"N","o"," ","p","r","e","v","i","e","w"," ","a","v","a","i","l","a","b","l","e">>
    ELSE Let(trim(lines[1]), LAMBDA trimmed :
        IF /\ Len(trimmed) > 30
           /\ trimmed[1] \notin {"#", "-", "=", "{"}
        THEN substring(trimmed, 0, 350)
        ELSE firstParagraph(Tail(lines)))

extractExcerpt(content, searchTerms, termPositions) ==
    IF Len(termPositions) > 0
    THEN excerptAround(content, bestStart(sortByPos(termPositions)))
    ELSE IF excerptOfTerm(content, toLowerCase(content), searchTerms) # Undefined
    THEN excerptOfTerm(content, toLowerCase(content), searchTerms)
    ELSE firstParagraph(split(content, "\n"))

(***************************************************************************)
(* The calls of extractExcerpt                                             *)
(***************************************************************************)

\* The most term positions of a call.
MaxHits == 4

\* The content of the cluster test: a lone term, a thousand characters, two
\* terms close together.
K_CLUSTER ==
    <<"A","r","r","a","y","P","r","o","x","y"," ","h","e","r","e","."," ">> \o [i \in 1..1000 |-> "X"]
    \o <<" ","M","o","d","e","r","n"," ","a","n","d"," ","t","r","a","c","k","e","d"," ","a",
        "r","e"," ","c","l","o","s","e"," ","t","o","g","e","t","h","e","r"," ","i","n"," ","t",
        "h","i","s"," ","s","e","c","t","i","o","n",".">>

\* The contents of the other excerpt tests, and one no term occurs in.
K_JSONTEXT == <<"D","e","s","c","r","i","p","t","i","o","n"," ","h","e","r","e"," ","{"," ","\"","d","a",
    "t","a","\"",":"," ","{"," ","\"","f","o","o","\"",":"," ","\"","b","a","r","\""," ","}",
    " ","}"," ","m","o","r","e"," ","t","e","x","t">>

K_NOPOS == <<"S","o","m","e"," ","c","o","n","t","e","n","t"," ","w","i","t","h","o","u","t"," ","s",
    "p","e","c","i","f","i","c"," ","p","o","s","i","t","i","o","n","s">>

K_FENCED == <<"#"," ","T","i","t","l","e","\n","\n","\n","\n","r","u","n"," ",Backtick,"x",Backtick,
    "\n",Backtick,Backtick,Backtick,"j","s","\n","l","e","t"," ","a",";","\n",Backtick,Backtick,
    Backtick," ","t","h","e","n"," ","a"," ","l","i","n","e"," ","o","f"," ","f","o","r","t",
    "y"," ","c","h","a","r","a","c","t","e","r","s"," ","o","r"," ","s","o","\n">>

HitOffsets == {0, 300, 400, 700, 800, 1020, 1032}

Hit(p) == [term |-> <<"m","o","d","e","r","n">>, pos |-> p]

\* The hits at the offsets of S, the earliest first and the latest first.
RECURSIVE ascending(_)
ascending(S) ==
    IF S = {} THEN <<>> ELSE <<Hit(MinOf(S))>> \o ascending(S \ {MinOf(S)})

RECURSIVE descending(_)
descending(S) ==
    IF S = {} THEN <<>> ELSE <<Hit(MaxOf(S))>> \o descending(S \ {MaxOf(S)})

\* The term positions of the calls: up to MaxHits of the offsets, given in
\* either order.
HitSeqs ==
    {ascending(S) : S \in {T \in SUBSET HitOffsets : Cardinality(T) <= MaxHits}}
    \cup {descending(S) : S \in {T \in SUBSET HitOffsets : Cardinality(T) <= MaxHits}}

ExcerptCalls ==
    ({K_CLUSTER} \X {<<<<"a","r","r","a","y","p","r","o","x","y">>, <<"m","o","d","e","r","n">>, <<"t","r","a","c","k","e","d">>>>} \X HitSeqs)
    \cup {<<K_JSONTEXT, <<<<"d","e","s","c","r","i","p","t","i","o","n">>>>, <<[term |-> <<"d","e","s","c","r","i","p","t","i","o","n">>, pos |-> 0]>>>>,
          <<K_NOPOS, <<<<"c","o","n","t","e","n","t">>>>, <<>>>>,
          <<K_CLUSTER, <<<<"m","o","d","e","r","n">>>>, <<Hit(400), Hit(0), Hit(0)>>>>,
          <<K_NOPOS, <<<<"z","q">>>>, <<>>>>,
          <<K_FENCED, <<<<"z","q">>>>, <<>>>>,
          <<K_FENCED, <<<<"r","u","n">>>>, <<[term |-> <<"r","u","n">>, pos |-> 12]>>>>}

\* service.extractExcerpt(content, searchTerms, termPositions); bestStart is
\* the anchor of the window, -1 when no position was given.
ExtractExcerpt(content, searchTerms, termPositions) ==
    /\ ret = NoCall
    /\ ret' = [op |-> "extractExcerpt",
               content |-> content,
               searchTerms |-> searchTerms,
               termPositions |-> sortByPos(termPositions),
               bestStart |-> IF Len(termPositions) > 0
                             THEN bestStart(sortByPos(termPositions)) ELSE -1,
               excerpt |-> extractExcerpt(content, searchTerms, termPositions)]
    /\ UNCHANGED <<service, calls>>

NextExcerpt ==
    \/ \E c \in ExcerptCalls : ExtractExcerpt(c[1], c[2], c[3])
    \/ Return

SpecExcerpt == Init /\ [][NextExcerpt]_vars

(***************************************************************************)
(* Properties of the excerpt                                               *)
(***************************************************************************)

\* The hits from i on that are chained to hit i: every gap between
\* consecutive hits up to them is below the distance.
chainedFrom(sorted, i) ==
    {j \in i..Len(sorted) :
        \A k \in (i + 1)..j : sorted[k].pos - sorted[k - 1].pos < CLUSTER_DISTANCE}

\* Hit i opens a chain: it is the first hit, or the distance or more after
\* the hit before it.
opensChain(sorted, i) ==
    i = 1 \/ sorted[i].pos - sorted[i - 1].pos >= CLUSTER_DISTANCE

\* The first hit of the earliest of the longest chains.
chainAnchor(sorted) ==
    sorted[MinOf({i \in 1..Len(sorted) :
        /\ opensChain(sorted, i)
        /\ \A i2 \in 1..Len(sorted) :
               opensChain(sorted, i2)
               => Cardinality(chainedFrom(sorted, i)) >= Cardinality(chainedFrom(sorted, i2))})].pos

\* The hits from i on that lie less than the distance after hit i.
withinFrom(sorted, i) ==
    {j \in i..Len(sorted) : sorted[j].pos - sorted[i].pos < CLUSTER_DISTANCE}

\* The earliest of the hits with the most hits less than the distance
\* after them.
windowAnchor(sorted) ==
    sorted[MinOf({i \in 1..Len(sorted) :
        \A i2 \in 1..Len(sorted) :
            Cardinality(withinFrom(sorted, i)) >= Cardinality(withinFrom(sorted, i2))})].pos

\* C24 (as stated): the window of the excerpt is anchored on the first hit
\* of the largest cluster, the earliest of them when several are as large,
\* a cluster being a run of sorted hits whose consecutive gaps are all below
\* 500.
C24_ChainedCluster ==
    ret.op = "extractExcerpt" /\ Len(ret.termPositions) > 0 =>
        /\ ret.bestStart = chainAnchor(ret.termPositions)
        /\ ret.excerpt = excerptAround(ret.content, chainAnchor(ret.termPositions))

\* C24 (amended): the window of the excerpt is anchored on the first hit of
\* the largest cluster, the earliest of them when several are as large, the
\* cluster of a hit being that hit and the sorted hits after it that lie
\* less than 500 after it.
C24_WindowCluster ==
    ret.op = "extractExcerpt" /\ Len(ret.termPositions) > 0 =>
        /\ ret.bestStart = windowAnchor(ret.termPositions)
        /\ ret.excerpt = excerptAround(ret.content, windowAnchor(ret.termPositions))

\* An excerpt was taken for hits whose largest cluster does not open with
\* the first hit, and shows the two close terms of the content.
C24_Witness ==
    /\ ret.op = "extractExcerpt"
    /\ Len(ret.termPositions) >= 3
    /\ ret.bestStart > ret.termPositions[1].pos
    /\ includes(ret.excerpt, <<"M","o","d","e","r","n"," ","a","n","d"," ","t","r","a","c","k","e","d">>)

(***************************************************************************)
(* Properties of the items of the Corpus Segmenter                         *)
(***************************************************************************)

\* The items of every section.
itemsOf(secs) ==
    UNION {{secs[i].items[j] : j \in 1..Len(secs[i].items)} : i \in 1..Len(secs)}

\* No separator line is left inside an item after a content line of it: in
\* the item a header opens none after its second line, in a later item of
\* the section none after its first.
closedAtSeparator(itemLines) ==
    \A k \in 1..Len(itemLines) :
        IsSeparator(itemLines[k])
        => k <= (IF IsSectionHeader(itemLines[1]) THEN 2 ELSE 1)

\* C25: after one corpus is parsed no item holds a separator line that
\* follows a content line of the item: every such line closed the item,
\* in the first item of a section and in every later one.
C25_SeparatorCloses ==
    Len(loads) = 1 =>
        \A item \in itemsOf(sections) : closedAtSeparator(split(item.content, "\n"))

\* The 1-based places of the corpus lines an item holds.
linesHeld(item) ==
    (item.startLine + 1)..(item.startLine + Len(split(item.content, "\n")))

\* The lines of the item are the corpus lines at its places, verbatim and in
\* order.
isVerbatim(lines, item) ==
    /\ item.startLine + Len(split(item.content, "\n")) <= Len(lines)
    /\ \A k \in 1..Len(split(item.content, "\n")) :
           split(item.content, "\n")[k] = lines[item.startLine + k]

\* The items that hold the corpus line at place n.
holders(items, n) == {item \in items : n \in linesHeld(item)}

\* The place of the first section header, past the end when there is none.
firstHeader(lines) == MinOr(headerLines(lines), Len(lines) + 1)

\* A line no item holds is a separator line right after the last line of
\* an item.
closedAnItem(lines, items, n) ==
    /\ IsSeparator(lines[n])
    /\ \E item \in items : item.startLine + Len(split(item.content, "\n")) = n - 1

\* The header at place h is the first line of an item of the section it
\* names.
opensItem(lines, secs, h) ==
    \E j \in 1..Len(sectionItems(secs, trim(SubSeq(lines[h], 3, Len(lines[h]))))) :
        sectionItems(secs, trim(SubSeq(lines[h], 3, Len(lines[h]))))[j].startLine = h - 1

\* The items of every section are in the order of the corpus.
inSourceOrder(secs) ==
    \A i \in 1..Len(secs) :
        \A j, k \in 1..Len(secs[i].items) :
            j < k => secs[i].items[j].startLine < secs[i].items[k].startLine

losesNothing(lines, secs, items) ==
    /\ \A item \in items : isVerbatim(lines, item)
    /\ inSourceOrder(secs)
    /\ \A h \in headerLines(lines) : opensItem(lines, secs, h)
    /\ \A n \in 1..Len(lines) :
           IF n < firstHeader(lines)
           THEN holders(items, n) = {}
           ELSE \/ Cardinality(holders(items, n)) = 1
                \/ holders(items, n) = {} /\ closedAnItem(lines, items, n)

\* C26: after one corpus is parsed, every line from the first section
\* header on is, verbatim, a line of exactly one item, but for the
\* separator lines that closed an item; the lines of an item are in the
\* order of the corpus, a section header is the first line of the item it
\* opens, and no item holds a line from before the first header.
C26_LosesNothing ==
    Len(loads) = 1 => losesNothing(split(loads[1], "\n"), sections, itemsOf(sections))

\* A corpus with lines before its first header, separators that close items
\* and separators that do not was parsed into two sections.
C26_Witness ==
    /\ loads = <<K_PRE>>
    /\ Len(sections) = 2
    /\ Len(sectionItems(sections, <<"g","u","i","d","e","s">>)) = 3

(***************************************************************************)
(* Properties of the candidates of getBestPractices                        *)
(***************************************************************************)

\* The item an entry was built from is an item of a section other than
\* api-docs, and the entry has its title.
fromOutsideApiDocs(secs, pool, entry) ==
    /\ pool[entry.scanIndex].sectionName # API_DOCS
    /\ \E j \in 1..Len(sectionItems(secs, pool[entry.scanIndex].sectionName)) :
           sectionItems(secs, pool[entry.scanIndex].sectionName)[j].content
               = pool[entry.scanIndex].content
    /\ entry.title = extractTitle(pool[entry.scanIndex].content)

\* C27: every entry getBestPractices returns was built from an item of the
\* community-bloggers section or of a section that is neither api-docs nor
\* community-bloggers, whatever the topic.
C27_NoApiDocsEntries ==
    ret.op = "getBestPractices" =>
        \A i \in 1..Len(ret.results) :
            fromOutsideApiDocs(sections, allSections(sections), ret.results[i])

\* getBestPractices returned entries while an item of api-docs holds the
\* topic.
C27_Witness ==
    /\ ret.op = "getBestPractices"
    /\ Len(ret.results) > 0
    /\ ret.text # <<>>
    /\ \E j \in 1..Len(sectionItems(sections, API_DOCS)) :
           includes(toLowerCase(sectionItems(sections, API_DOCS)[j].content),
                    toLowerCase(ret.text))

(***************************************************************************)
(* Properties of the score of getBestPractices                             *)
(***************************************************************************)

\* The score of the topic terms alone: the weight for each matched term,
\* and the all-terms bonus when every term matched.
termsOnlyScore(matched, topicTerms) ==
    matched * SEARCH_CONFIG.BP_TERM_MATCH_WEIGHT
    + (IF matched = Len(topicTerms) THEN SEARCH_CONFIG.BP_ALL_TERMS_BONUS ELSE 0)

\* A candidate with a topic term and no strong keyword.
hasNoStrongKeyword(content, topicTerms) ==
    /\ matchedTermCount(content, topicTerms) > 0
    /\ keywordMatches(content, BEST_PRACTICES_KEYWORDS.strong) = 0

\* What the weak keywords of a content would add.
weakKeywordScore(content) ==
    keywordMatches(content, BEST_PRACTICES_KEYWORDS.weak)
    * SEARCH_CONFIG.BP_WEAK_KEYWORD_WEIGHT

weakAddsNothingAlone(pool, topicTerms, results) ==
    /\ \A i \in 1..Len(pool) :
           hasNoStrongKeyword(toLowerCase(pool[i].content), topicTerms)
           => scoreOf(pool[i].content, topicTerms)
              = termsOnlyScore(matchedTermCount(toLowerCase(pool[i].content), topicTerms),
                               topicTerms)
    /\ \A r \in 1..Len(results) :
           hasNoStrongKeyword(toLowerCase(pool[results[r].scanIndex].content), topicTerms)
           => termsOnlyScore(matchedTermCount(toLowerCase(pool[results[r].scanIndex].content),
                                              topicTerms), topicTerms)
              >= SEARCH_CONFIG.BP_MIN_THRESHOLD

\* C28: the score of a candidate of getBestPractices with no strong keyword
\* is the weight of its matched topic terms plus the all-terms bonus when
\* every term matched, however many weak keywords it holds, and such a
\* candidate is returned only when that score reaches the threshold.
C28_WeakNeedsStrong ==
    ret.op = "getBestPractices" =>
        weakAddsNothingAlone(allSections(sections), topicTermsOf(toLowerCase(ret.text)),
                             ret.results)

\* A candidate with no strong keyword that its weak keywords would lift
\* to the threshold, and that is not returned.
liftedByWeakOnly(pool, i, topicTerms, results) ==
    /\ hasNoStrongKeyword(toLowerCase(pool[i].content), topicTerms)
    /\ termsOnlyScore(matchedTermCount(toLowerCase(pool[i].content), topicTerms),
                      topicTerms) < SEARCH_CONFIG.BP_MIN_THRESHOLD
    /\ termsOnlyScore(matchedTermCount(toLowerCase(pool[i].content), topicTerms),
                      topicTerms) + weakKeywordScore(toLowerCase(pool[i].content))
           >= SEARCH_CONFIG.BP_MIN_THRESHOLD
    /\ \A r \in 1..Len(results) : results[r].scanIndex # i

C28_Witness ==
    /\ ret.op = "getBestPractices"
    /\ \E i \in 1..Len(allSections(sections)) :
           liftedByWeakOnly(allSections(sections), i, topicTermsOf(toLowerCase(ret.text)),
                            ret.results)

(***************************************************************************)
(* Properties of extractBestPracticeSections                               *)
(***************************************************************************)

\* The entries keep 30 lines of the body.
BODY_LINES == 30

\* The places of the lines outside code blocks: not a fence line, and an
\* even number of fence lines before them.
proseLines(lines) ==
    {n \in 1..Len(lines) :
        /\ ~startsWith(trim(lines[n]), FENCE)
        /\ Cardinality({k \in 1..(n - 1) : startsWith(trim(lines[k]), FENCE)}) % 2 = 0}

\* The place of the line that establishes relevance, 0 when there is none.
onsetOf(lines, topicTerms) ==
    MinOr({n \in proseLines(lines) : isRelevantLine(toLowerCase(lines[n]), topicTerms)}, 0)

\* The place of the first top-level header after the onset, past the end
\* when there is none.
laterHeader(lines, onset) ==
    MinOr({n \in proseLines(lines) : n > onset /\ isTopHeader(lines[n])}, Len(lines) + 1)

\* The places of the lines that are not structural: not blank, not a rule
\* of #, - or =, not the start of a JSON record.
bodyLines(lines) ==
    {n \in proseLines(lines) :
        /\ trim(lines[n]) # <<>>
        /\ ~isRuleLine(lines[n])
        /\ ~startsWith(trim(lines[n]), <<"{">>)}

\* The body holds every line of the item that is not structural, from the
\* onset to the header after it, while fewer than BODY_LINES were taken.
holdsLinesToLaterHeader(lines, onset, body) ==
    \A n \in bodyLines(lines) :
        /\ onset > 0
        /\ n >= onset
        /\ n < laterHeader(lines, onset)
        /\ Cardinality({m \in bodyLines(lines) : m >= onset /\ m <= n}) <= BODY_LINES
        => includes(body, trim(lines[n]))

\* C29: the body of every entry of getBestPractices holds the lines of its
\* item that are not structural from the line that established relevance up
\* to the first top-level header after that line; the onset line does not
\* end the scan.
C29_StopsAtLaterHeader ==
    ret.op = "getBestPractices" =>
        \A i \in 1..Len(ret.results) :
            holdsLinesToLaterHeader(
                split(allSections(sections)[ret.results[i].scanIndex].content, "\n"),
                onsetOf(split(allSections(sections)[ret.results[i].scanIndex].content, "\n"),
                        topicTermsOf(toLowerCase(ret.text))),
                ret.results[i].content)

(***************************************************************************)
(* Properties of a failed load                                             *)
(***************************************************************************)

\* The fetch of call c fails in this step: the call is answered with an
\* error response, and the service is left as it was, its loaded flag
\* included.
failedFetchStep(c) ==
    calls[c].pc = "fetching" /\ calls'[c].pc = "done"
    => /\ ret'.error = "Failed to fetch documentation"
       /\ ret'.results = <<>>
       /\ UNCHANGED <<documentation, sections, apiIndex, deprecations, loaded>>

\* Call c arrives in this step: it loads when the service is not loaded,
\* and does not fetch when it is.
arrivalStep(c) ==
    calls[c].pc = "idle" /\ calls'[c].pc # "idle"
    => (calls'[c].pc = "fetching") = ~loaded

\* C30: a fetch that fails makes its call answer with an error response
\* and leaves the loaded flag false and the sections, the entity index and
\* the deprecation registry as they were; a call that arrives while the
\* service is not loaded attempts the load, one that arrives after a load
\* succeeded does not fetch, and a loaded service stays loaded.
C30_LoadFailure ==
    [][/\ \A c \in 1..MaxCalls : failedFetchStep(c) /\ arrivalStep(c)
       /\ ~loaded /\ (\E c \in 1..MaxCalls : calls'[c].pc = "done" /\ calls[c].pc = "fetching")
          => ~loaded'
       /\ loaded => loaded']_vars

\* The first call was answered with the error of a failed fetch, the
\* service was left empty, and the load of the second call succeeded.
C30_Witness ==
    /\ calls[1].pc = "done"
    /\ ret.error = "Failed to fetch documentation"
    /\ calls[2].pc = "ready"
    /\ loaded
    /\ Len(loads) = 1

====
